---- MODULE Spec2Model ----
(***************************************************************************)
(* Model of the Gmail MCP server: the client facade                         *)
(* (src/src/gmail-client.ts) with the MIME body extraction done by          *)
(* getMessage and the RFC-822 draft construction done by createDraft, the   *)
(* OAuth helpers, and the tool handlers of src/src/index.ts.  A handler     *)
(* runs up to its next remote call in one step; every remote call settles   *)
(* in a step of its own, with success or with failure.                      *)
(*                                                                          *)
(* Text is a sequence of Unicode code points, octets are sequences over     *)
(* 0..255, and base64 text is a sequence of character codes.  Optional      *)
(* JavaScript fields are records [has |-> BOOLEAN, val |-> ...].            *)
(***************************************************************************)
EXTENDS Integers, Sequences, FiniteSets, TLC

VARIABLES pc, op, payload, body, options, requestBody,
          gmailClient, created, files, stage, args, calls, replies, pending, locals,
          result

vars == <<pc, op, payload, body, options, requestBody,
          gmailClient, created, files, stage, args, calls, replies, pending, locals,
          result>>

----------------------------------------------------------------------------
(* Bounds of the model *)

\* longest list of child parts under one MIME node
MaxParts == 2
\* number of atoms a generated subject is concatenated from, at most
MaxSubjectAtoms == 2
\* number of atoms a generated body is concatenated from, at most
MaxBodyAtoms == 1
\* longest list of message ids the remote message-list call returns
MaxListed == 3
\* longest list the remote calls of a multi-call handler (gmail_daily_summary,
\* gmail_list_labels, gmail_list_drafts) return
MaxShort == 1
\* number of GmailApiClient instances the process creates, at most
MaxClients == 2
\* longest list of draft entries the remote draft-list call returns
MaxDrafts == 2

----------------------------------------------------------------------------
(* Character codes *)

CR == 13
LF == 10
SP == 32
LT == 60
GT == 62
PAD == 61
REPLACEMENT == 65533

CRLF == <<CR, LF>>

\* the characters the regular expression class \s matches, which are also
\* the characters String.prototype.trim removes
IsWhiteSpace(c) ==
    \/ c \in {9, 10, 11, 12, 13, 32, 160, 5760, 8232, 8233, 8239, 8287, 12288, 65279}
    \/ c \in 8192..8202

----------------------------------------------------------------------------
(* Buffer: base64 and UTF-8 *)

\* character of the standard base64 alphabet for the sextet v
Base64Char(v) ==
    IF v < 26 THEN 65 + v
    ELSE IF v < 52 THEN 97 + (v - 26)
    ELSE IF v < 62 THEN 48 + (v - 52)
    ELSE IF v = 62 THEN 43 ELSE 47

\* character of the URL-safe base64 alphabet for the sextet v
Base64UrlChar(v) ==
    IF v < 62 THEN Base64Char(v)
    ELSE IF v = 62 THEN 45 ELSE 95

\* sextet of a base64 character of either alphabet, 64 for any other character
Unbase64(c) ==
    IF c \in 65..90 THEN c - 65
    ELSE IF c \in 97..122 THEN c - 97 + 26
    ELSE IF c \in 48..57 THEN c - 48 + 52
    ELSE IF c \in {43, 45} THEN 62
    ELSE IF c \in {47, 95} THEN 63
    ELSE 64

\* the elements of a sequence of naturals and -1 that are not -1
Compact(f) == SelectSeq(f, LAMBDA x : x >= 0)

\* the base64 text of the octets: four characters for every three octets,
\* two or three for a last group of one or two; the URL-safe form is not
\* padded, the standard form is padded with "="
Base64Encode(bytes, url) ==
    LET n == Len(bytes)
        Char(v) == IF url THEN Base64UrlChar(v) ELSE Base64Char(v)
        byte(i) == IF i <= n THEN bytes[i] ELSE 0
        groups == (n + 2) \div 3
        sextet(g, k) ==
            LET b0 == byte(3 * g - 2)
                b1 == byte(3 * g - 1)
                b2 == byte(3 * g)
            IN  IF k = 0 THEN b0 \div 4
                ELSE IF k = 1 THEN (b0 % 4) * 16 + (b1 \div 16)
                ELSE IF k = 2 THEN (b1 % 16) * 4 + (b2 \div 64)
                ELSE b2 % 64
        \* the number of characters that carry octets of group g
        used(g) == IF 3 * g <= n THEN 4 ELSE (n - 3 * (g - 1)) + 1
    IN  Compact([j \in 1..(4 * groups) |->
            LET g == ((j - 1) \div 4) + 1
                k == (j - 1) % 4
            IN  IF k < used(g) THEN Char(sextet(g, k))
                ELSE IF url THEN -1 ELSE PAD])

\* buf.toString("base64"): standard alphabet, padded with "="
ToStringBase64(bytes) == Base64Encode(bytes, FALSE)

\* buf.toString("base64url"): URL-safe alphabet, no padding
ToStringBase64Url(bytes) == Base64Encode(bytes, TRUE)

\* the sextets of the legal characters of data before the first "="
Sextets(data) ==
    LET pads == {k \in 1..Len(data) : data[k] = PAD}
        end == IF pads = {} THEN Len(data)
               ELSE (CHOOSE k \in pads : \A m \in pads : k <= m) - 1
    IN  Compact([i \in 1..end |->
            IF Unbase64(data[i]) < 64 THEN Unbase64(data[i]) ELSE -1])

\* three octets for every four sextets, one or two for a last group of two
\* or three, none for a last group of one
SextetsToBytes(s) ==
    LET n == Len(s)
        groups == (n + 3) \div 4
        six(i) == IF i <= n THEN s[i] ELSE 0
        \* the number of octets the group g carries
        octets(g) == IF 4 * g <= n THEN 3 ELSE (n - 4 * (g - 1)) - 1
    IN  Compact([j \in 1..(3 * groups) |->
            LET g == ((j - 1) \div 3) + 1
                k == (j - 1) % 3
                s0 == six(4 * g - 3)
                s1 == six(4 * g - 2)
                s2 == six(4 * g - 1)
                s3 == six(4 * g)
            IN  IF k >= octets(g) THEN -1
                ELSE IF k = 0 THEN s0 * 4 + (s1 \div 16)
                ELSE IF k = 1 THEN (s1 % 16) * 16 + (s2 \div 4)
                ELSE (s2 % 4) * 64 + s3])

\* Buffer.from(data, "base64"): accepts both alphabets, skips characters
\* outside them, stops at the first "=", drops an incomplete trailing octet
BufferFromBase64(data) == SextetsToBytes(Sextets(data))

\* UTF-8 octets of one code point
Utf8OfChar(c) ==
    IF c < 128 THEN <<c>>
    ELSE IF c < 2048 THEN <<192 + (c \div 64), 128 + (c % 64)>>
    ELSE IF c < 65536 THEN
        <<224 + (c \div 4096), 128 + ((c \div 64) % 64), 128 + (c % 64)>>
    ELSE <<240 + (c \div 262144), 128 + ((c \div 4096) % 64),
           128 + ((c \div 64) % 64), 128 + (c % 64)>>

\* Buffer.from(str): the UTF-8 octets of the code points, in order
BufferFromString(str) ==
    Compact([j \in 1..(4 * Len(str)) |->
        LET u == Utf8OfChar(str[((j - 1) \div 4) + 1])
            k == ((j - 1) % 4) + 1
        IN  IF k <= Len(u) THEN u[k] ELSE -1])

\* the number of octets of the sequence the octet b0 leads, 0 if it leads none
SeqLen(b0) ==
    IF b0 < 128 THEN 1
    ELSE IF b0 \in 194..223 THEN 2
    ELSE IF b0 \in 224..239 THEN 3
    ELSE IF b0 \in 240..244 THEN 4
    ELSE 0

\* the range the octet number k (2, 3, 4) of a sequence led by b0 must lie in
ContRange(b0, k) ==
    IF k > 2 THEN 128..191
    ELSE IF b0 = 224 THEN 160..191
    ELSE IF b0 = 237 THEN 128..159
    ELSE IF b0 = 240 THEN 144..191
    ELSE IF b0 = 244 THEN 128..143
    ELSE 128..191

\* the number of octets from i on that are a prefix of a well-formed sequence
ValidPrefix(bytes, i) ==
    LET need == SeqLen(bytes[i])
        ok(k) == /\ k <= need
                 /\ i + k - 1 <= Len(bytes)
                 /\ \A m \in 2..k : bytes[i + m - 1] \in ContRange(bytes[i], m)
    IN  IF need = 0 THEN 0
        ELSE CHOOSE k \in 1..need : ok(k) /\ ~ok(k + 1)

\* the code point of the well-formed sequence of n octets at i
CodePointAt(bytes, i, n) ==
    LET c(k) == bytes[i + k] - 128
    IN  IF n = 1 THEN bytes[i]
        ELSE IF n = 2 THEN (bytes[i] - 192) * 64 + c(1)
        ELSE IF n = 3 THEN (bytes[i] - 224) * 4096 + c(1) * 64 + c(2)
        ELSE (bytes[i] - 240) * 262144 + c(1) * 4096 + c(2) * 64 + c(3)

\* buf.toString("utf-8"): a well-formed sequence decodes to its code point;
\* an octet that starts none, and a truncated sequence, decode to U+FFFD.
\* Continuation octets taken by the sequence a preceding lead octet starts
\* yield nothing of their own.
ToStringUtf8(bytes) ==
    Compact([i \in 1..Len(bytes) |->
        IF \E k \in 1..3 : i - k >= 1 /\ ValidPrefix(bytes, i - k) > k THEN -1
        ELSE IF ValidPrefix(bytes, i) = SeqLen(bytes[i]) /\ SeqLen(bytes[i]) > 0
        THEN CodePointAt(bytes, i, SeqLen(bytes[i]))
        ELSE REPLACEMENT])

----------------------------------------------------------------------------
(* JavaScript values *)

Undefined == [has |-> FALSE, val |-> <<>>]
Some(v) == [has |-> TRUE, val |-> v]

\* truthiness of an optional string: present and not empty
Truthy(x) == x.has /\ x.val # <<>>

\* outcome of a call: a returned string, or a thrown exception
Returned(s) == [threw |-> FALSE, value |-> s]
Thrown == [threw |-> TRUE, value |-> <<>>]

----------------------------------------------------------------------------
(* MIME parts, as the remote message-get call delivers them *)

Missing == "undefined"

NullPart == [isNull |-> TRUE, mimeType |-> Missing, body |-> Undefined,
             data |-> Undefined, parts |-> Undefined]

\* body is Some(<<>>) for a body object, data is its data field
Part(mimeType, hasBody, data, parts) ==
    [isNull |-> FALSE, mimeType |-> mimeType,
     body |-> IF hasBody THEN Some(<<>>) ELSE Undefined,
     data |-> IF hasBody THEN data ELSE Undefined, parts |-> parts]

----------------------------------------------------------------------------
(* GmailApiClient.extractBody *)

\* html.replace(/<[^>]*>/g, ""): a "<" with a ">" somewhere after it is
\* removed together with everything up to the first such ">"; the character
\* at i goes when a "<" at or before it, with no ">" in between, has a ">"
\* at or after i
StripTags(s) ==
    Compact([i \in 1..Len(s) |->
        IF \E l \in 1..i :
              /\ s[l] = LT
              /\ \A m \in l..(i - 1) : s[m] # GT
              /\ \E r \in i..Len(s) : r > l /\ s[r] = GT
        THEN -1 ELSE s[i]])

\* s.replace(/\s+/g, " "): the first character of a whitespace run becomes a
\* space, the others go
CollapseWhiteSpace(s) ==
    Compact([i \in 1..Len(s) |->
        IF ~IsWhiteSpace(s[i]) THEN s[i]
        ELSE IF i > 1 /\ IsWhiteSpace(s[i - 1]) THEN -1 ELSE SP])

\* s.trim()
Trim(s) ==
    LET keep == {i \in 1..Len(s) : ~IsWhiteSpace(s[i])}
    IN  IF keep = {} THEN <<>>
        ELSE LET lo == CHOOSE i \in keep : \A k \in keep : i <= k
                 hi == CHOOSE i \in keep : \A k \in keep : i >= k
             IN  SubSeq(s, lo, hi)

\* a stripping that forgets the final trim
StripHtmlUntrimmed(html) == CollapseWhiteSpace(StripTags(html))

\* html.replace(/<[^>]*>/g, "").replace(/\s+/g, " ").trim()
StripHtml(html) == Trim(CollapseWhiteSpace(StripTags(html)))

\* a decoding that forgets the data is base64
DecodeDataRaw(data) == data

\* Buffer.from(data, "base64").toString("utf-8")
DecodeData(data) == ToStringUtf8(BufferFromBase64(data))

RECURSIVE extractBody(_)
RECURSIVE ForParts(_, _)

\* a loop that lets a later non-empty part overwrite an earlier one
RECURSIVE ForPartsLast(_, _)
ForPartsLast(parts, i) ==
    IF i > Len(parts) THEN Returned(<<>>)
    ELSE LET later == ForPartsLast(parts, i + 1)
             b == extractBody(parts[i])
         IN  IF later.threw \/ later.value # <<>> THEN later ELSE b

\* a loop that prefers the first text/plain part with a body to any other
\* part, and takes the first part with a body when there is none
ForPartsPlainFirst(parts, i) ==
    LET found == {k \in i..Len(parts) : extractBody(parts[k]).value # <<>>}
        plain == {k \in found : parts[k].mimeType = "text/plain"}
        least(set) == CHOOSE k \in set : \A m \in set : k <= m
    IN  IF plain # {} THEN extractBody(parts[least(plain)])
        ELSE IF found # {} THEN extractBody(parts[least(found)])
        ELSE Returned(<<>>)

\* a loop that ends at the first text/html part with body data, even when
\* its stripped text is empty
RECURSIVE ForPartsStopAtHtml(_, _)
ForPartsStopAtHtml(parts, i) ==
    IF i > Len(parts) THEN Returned(<<>>)
    ELSE LET b == extractBody(parts[i])
             html == /\ ~parts[i].isNull
                     /\ parts[i].mimeType = "text/html"
                     /\ Truthy(parts[i].data)
         IN  IF b.threw \/ b.value # <<>> \/ html THEN b
             ELSE ForPartsStopAtHtml(parts, i + 1)

\* for (const part of payload.parts) { ... if (body) return body; }
\* falling through to the final return ""
ForParts(parts, i) ==
    IF i > Len(parts) THEN Returned(<<>>)
    ELSE LET b == extractBody(parts[i])
         IN  IF b.threw \/ b.value # <<>> THEN b ELSE ForParts(parts, i + 1)

\* a traversal that iterates payload.parts without testing it
CheckPartsUnguarded(p) ==
    IF p.parts.has THEN ForParts(p.parts.val, 1) ELSE Thrown

\* if (payload.parts) { for ... } return ""
CheckParts(p) ==
    IF p.parts.has THEN ForParts(p.parts.val, 1) ELSE Returned(<<>>)

extractBody(p) ==
    IF p.isNull THEN Returned(<<>>)
    ELSE IF p.mimeType = "text/plain" /\ Truthy(p.data)
    THEN Returned(DecodeData(p.data.val))
    ELSE IF p.mimeType = "text/html" /\ Truthy(p.data)
    THEN Returned(StripHtml(DecodeData(p.data.val)))
    ELSE CheckParts(p)

----------------------------------------------------------------------------
(* The messages the remote service can deliver *)

\* "SGVsbG8gV29ybGQ=", the body of the test suite's messages: "Hello World"
HelloWorldData == <<83, 71, 86, 115, 98, 71, 56, 103, 86, 50, 57, 121, 98, 71, 81, 61>>
HelloWorld == <<72, 101, 108, 108, 111, 32, 87, 111, 114, 108, 100>>
\* "PHA-SGVsbG8gPGI-V29ybGQ8L2I-PC9wPg==": "<p>Hello <b>World</b></p>"
HtmlHelloData ==
    <<80, 72, 65, 45, 83, 71, 86, 115, 98, 71, 56, 103, 80, 71, 73, 45, 86, 50,
      57, 121, 98, 71, 81, 56, 76, 50, 73, 45, 80, 67, 57, 119, 80, 103, 61, 61>>
\* "PGJyPg==": "<br>", which strips to the empty string
BrData == <<80, 71, 74, 121, 80, 103, 61, 61>>
\* "IGEgPGk-YjwvaT4KCiBjIA": " a <i>b</i>\n\n c ", unpadded
SpacedData ==
    <<73, 71, 69, 103, 80, 71, 107, 45, 89, 106, 119, 118, 97, 84, 52, 75, 67,
      105, 66, 106, 73, 65>>
\* "YSA-IGIgPCDDqQ==": "a > b < é"
AngleData == <<89, 83, 65, 45, 73, 71, 73, 103, 80, 67, 68, 68, 113, 81, 61, 61>>

Datas == {HelloWorldData, HtmlHelloData, BrData, SpacedData, AngleData}

\* a part without children: null, with body data, or without
Leaves ==
    {NullPart}
    \cup {Part("text/plain", TRUE, Some(d), Undefined) : d \in {HelloWorldData, <<>>}}
    \cup {Part("text/html", TRUE, Some(d), Undefined) : d \in Datas \ {HelloWorldData}}
    \cup {Part("application/pdf", TRUE, Undefined, Undefined),
          Part("text/plain", FALSE, Undefined, Undefined),
          Part(Missing, FALSE, Undefined, Undefined)}

PartLists == UNION {[1..n -> Leaves] : n \in 0..MaxParts}

\* a root with its own type and body and, possibly, a list of children
Roots ==
    {Part(mt, bd.has, bd, Some(ps)) :
        mt \in {"multipart/alternative", "text/plain", "text/html"},
        bd \in {Undefined, Some(HelloWorldData)},
        ps \in PartLists}

\* parts with children of their own, some with body data as well
Inner ==
    {Part(mt, bd.has, bd, Some(<<a, b>>)) :
        mt \in {"multipart/alternative", "text/html"},
        bd \in {Undefined, Some(BrData)},
        a \in {Part("text/html", TRUE, Some(BrData), Undefined),
               Part("application/pdf", TRUE, Undefined, Undefined)},
        b \in {Part("text/html", TRUE, Some(HtmlHelloData), Undefined),
               Part("text/plain", TRUE, Some(HelloWorldData), Undefined),
               NullPart}}

\* roots of depth two: an inner part followed or preceded by a leaf
Nested ==
    {Part("multipart/mixed", FALSE, Undefined, Some(ps)) :
        ps \in {<<n, l>> : n \in Inner,
                           l \in {Part("text/html", TRUE, Some(SpacedData), Undefined),
                                  Part("text/plain", TRUE, Some(<<>>), Undefined)}}
              \cup {<<l, n>> : n \in Inner,
                               l \in {Part("text/html", TRUE, Some(BrData), Undefined)}}}

Payloads == Leaves \cup Roots \cup Nested

----------------------------------------------------------------------------
(* GmailApiClient.createDraft *)

\* "To: "
ToPrefix == <<84, 111, 58, 32>>
\* "Subject: "
SubjectPrefix == <<83, 117, 98, 106, 101, 99, 116, 58, 32>>
\* "Content-Type: text/plain; charset=utf-8"
ContentTypeHeader ==
    <<67, 111, 110, 116, 101, 110, 116, 45, 84, 121, 112, 101, 58, 32, 116,
      101, 120, 116, 47, 112, 108, 97, 105, 110, 59, 32, 99, 104, 97, 114,
      115, 101, 116, 61, 117, 116, 102, 45, 56>>
\* "In-Reply-To: "
InReplyToPrefix == <<73, 110, 45, 82, 101, 112, 108, 121, 45, 84, 111, 58, 32>>
\* "References: "
ReferencesPrefix == <<82, 101, 102, 101, 114, 101, 110, 99, 101, 115, 58, 32>>

\* lines.join(sep)
RECURSIVE JoinFrom(_, _, _)
JoinFrom(lines, i, sep) ==
    IF i > Len(lines) THEN <<>>
    ELSE IF i = Len(lines) THEN lines[i]
    ELSE lines[i] \o sep \o JoinFrom(lines, i + 1, sep)

Join(lines, sep) == JoinFrom(lines, 1, sep)

\* a header block that puts the subject first
HeadersSubjectFirst(o) ==
    <<SubjectPrefix \o o.subject, ToPrefix \o o.to, ContentTypeHeader>>
    \o (IF Truthy(o.inReplyTo)
        THEN <<InReplyToPrefix \o o.inReplyTo.val, ReferencesPrefix \o o.inReplyTo.val>>
        ELSE <<>>)

\* const headers = [...]; if (inReplyTo) { headers.push(...); headers.push(...) }
Headers(o) ==
    <<ToPrefix \o o.to, SubjectPrefix \o o.subject, ContentTypeHeader>>
    \o (IF Truthy(o.inReplyTo)
        THEN <<InReplyToPrefix \o o.inReplyTo.val, ReferencesPrefix \o o.inReplyTo.val>>
        ELSE <<>>)

\* const message = [...headers, "", body].join("\r\n")
Message(o) == Join(Headers(o) \o <<<<>>, o.body>>, CRLF)

\* const encodedMessage = Buffer.from(message).toString("base64url")
EncodedMessage(o) == ToStringBase64Url(BufferFromString(Message(o)))

\* a request that loses the thread
DraftRequestBodyNoThread(o) == [raw |-> EncodedMessage(o), threadId |-> Undefined]

\* requestBody: { message: { raw: encodedMessage, threadId } }
DraftRequestBody(o) == [raw |-> EncodedMessage(o), threadId |-> o.threadId]

----------------------------------------------------------------------------
(* The drafts a caller can ask for *)

\* "r@example.com"
Recipient == <<114, 64, 101, 120, 97, 109, 112, 108, 101, 46, 99, 111, 109>>
\* "Test"
TestSubject == <<84, 101, 115, 116>>
\* "Body"
BodyText == <<66, 111, 100, 121>>
\* "orig-id"
OrigId == <<111, 114, 105, 103, 45, 105, 100>>
\* "thread123"
Thread123 == <<116, 104, 114, 101, 97, 100, 49, 50, 51>>
\* "References: r"
ReferencesLine == <<82, 101, 102, 101, 114, 101, 110, 99, 101, 115, 58, 32, 114>>

\* "r@example.com" and "x?é>"
Tos == {Recipient, <<120, 63, 233, 62>>}

\* "Test", CRLF and "References: r"
SubjectAtoms == {TestSubject, CRLF, ReferencesLine}

\* "Body" and "\r\n~é"
BodyAtoms == {BodyText, <<CR, LF, 126, 233>>}

RECURSIVE Concats(_, _)
\* the concatenations of at most n atoms
Concats(atoms, n) ==
    IF n = 0 THEN {<<>>}
    ELSE LET shorter == Concats(atoms, n - 1)
         IN  shorter \cup {a \o t : a \in atoms, t \in shorter}

Subjects == Concats(SubjectAtoms, MaxSubjectAtoms)
Bodies == Concats(BodyAtoms, MaxBodyAtoms)
InReplyTos == {Undefined, Some(OrigId), Some(<<>>)}
ThreadIds == {Undefined, Some(Thread123)}

DraftOptions ==
    [to : Tos, subject : Subjects, body : Bodies,
     inReplyTo : InReplyTos, threadId : ThreadIds]

----------------------------------------------------------------------------
(* The remote mail service *)

NoString == [has |-> FALSE, val |-> ""]
NoNumber == [has |-> FALSE, val |-> 0]

\* truthiness of an optional opaque string
TruthyString(x) == x.has /\ x.val # ""

\* "Alice <alice@example.com>"
FromAlice == <<65, 108, 105, 99, 101, 32, 60, 97, 108, 105, 99, 101, 64, 101, 120, 97, 109, 112, 108, 101, 46, 99, 111, 109, 62>>
\* "Alice <a@x.io>"
FromAliceToo == <<65, 108, 105, 99, 101, 32, 60, 97, 64, 120, 46, 105, 111, 62>>
\* "Bob <bob@example.com>"
FromBob == <<66, 111, 98, 32, 60, 98, 111, 98, 64, 101, 120, 97, 109, 112, 108, 101, 46, 99, 111, 109, 62>>

MessageIds == {"m1", "m2", "m3", "m4"}

\* the response data of the remote message-get call for the id
RemoteMessage(id) ==
    [id |-> id,
     threadId |-> IF id \in {"m1", "m2"} THEN "t1" ELSE "t2",
     from |-> IF id \in {"m1", "m4"} THEN FromAlice
              ELSE IF id = "m2" THEN FromAliceToo ELSE FromBob,
     subject |-> IF id = "m1" THEN "s1"
                 ELSE IF id = "m2" THEN "s2"
                 ELSE IF id = "m3" THEN "s3" ELSE "s4",
     labelIds |-> IF id = "m1" THEN <<"INBOX", "UNREAD">> ELSE <<"INBOX">>,
     payload |-> Part("text/plain", TRUE, Some(HelloWorldData), Undefined)]

\* the sequences without repetition over a set, of at most n elements
RECURSIVE Listings(_, _)
Listings(set, n) ==
    IF n = 0 THEN {<<>>}
    ELSE LET shorter == Listings(set, n - 1)
         IN  shorter \cup {Append(l, x) : l \in shorter, x \in set}

Distinct(l) == \A i, j \in 1..Len(l) : i # j => l[i] # l[j]

\* what the remote message-list call can deliver: no messages field, or ids
ListResponses(n) ==
    {Undefined} \cup {Some(l) : l \in {m \in Listings(MessageIds, n) : Distinct(m)}}

\* a remote request, issued through the client instance c
Call(c, api, req) == [client |-> c, api |-> api, req |-> req]

----------------------------------------------------------------------------
(* GmailApiClient: reading *)

NoListOptions == [maxResults |-> NoNumber, query |-> NoString, labelIds |-> Undefined]

\* a request that sends the default page size whatever the caller asked for
ListRequestDefaultOnly(o) ==
    [userId |-> "me", maxResults |-> 20, q |-> o.query, labelIds |-> o.labelIds]

\* const { maxResults = 20, query, labelIds } = options;
\* this.gmail.users.messages.list({ userId: "me", maxResults, q: query, labelIds })
ListRequest(o) ==
    [userId |-> "me",
     maxResults |-> IF o.maxResults.has THEN o.maxResults.val ELSE 20,
     q |-> o.query, labelIds |-> o.labelIds]

\* this.gmail.users.messages.get({ userId: "me", id: messageId, format: "full" })
GetRequest(messageId) == [userId |-> "me", id |-> messageId, format |-> "full"]

\* a search that sends the query as a label filter
SearchOptionsAsLabel(query, maxResults) ==
    [maxResults |-> maxResults, query |-> NoString, labelIds |-> Some(<<query.val>>)]

\* searchMessages(query, maxResults = 20): this.listMessages({ query, maxResults })
SearchOptions(query, maxResults) ==
    [maxResults |-> IF maxResults.has THEN maxResults ELSE [has |-> TRUE, val |-> 20],
     query |-> query, labelIds |-> Undefined]

\* the null getMessage resolves with, and the slot of a get not yet settled
NullMessage == [isNull |-> TRUE, settled |-> TRUE]
Unsettled == [isNull |-> TRUE, settled |-> FALSE]

\* the EmailMessage getMessage builds from the response data and the body
EmailMessage(msg, b) ==
    [isNull |-> FALSE, id |-> msg.id, threadId |-> msg.threadId,
     from |-> msg.from, subject |-> msg.subject, body |-> b,
     labels |-> msg.labelIds,
     isUnread |-> \E i \in 1..Len(msg.labelIds) : msg.labelIds[i] = "UNREAD"]

\* a getMessage without its try/catch
GetMessageUncaught(ok, msg) ==
    IF ~ok \/ extractBody(msg.payload).threw THEN [threw |-> TRUE, value |-> NullMessage]
    ELSE [threw |-> FALSE, value |-> EmailMessage(msg, extractBody(msg.payload).value)]

\* getMessage once the remote get has settled: try { ... } catch { return null }
GetMessageOutcome(ok, msg) ==
    IF ~ok \/ extractBody(msg.payload).threw THEN [threw |-> FALSE, value |-> NullMessage]
    ELSE [threw |-> FALSE, value |-> EmailMessage(msg, extractBody(msg.payload).value)]

\* results collected in the order the fetches complete in
SettleInCompletionOrder(detailed, i, m) ==
    LET free == {k \in 1..Len(detailed) : detailed[k].isNull /\ ~detailed[k].settled}
        k == CHOOSE x \in free : \A y \in free : x <= y
    IN  [detailed EXCEPT ![k] = m]

\* Promise.all(messages.map(...)): the result of the i-th promise is the i-th
\* element, whatever order the promises settle in
Settle(detailed, i, m) == [detailed EXCEPT ![i] = m]

\* a result that is empty as soon as one of the gets delivered null
NoneIfAnyNull(detailed) ==
    IF \E k \in 1..Len(detailed) : detailed[k].isNull THEN <<>> ELSE detailed

\* detailed.filter((m): m is EmailMessage => m !== null)
NonNull(detailed) == SelectSeq(detailed, LAMBDA m : ~m.isNull)

\* this.modifyMessageLabels(messageId, ["UNREAD"], []) for both
MarkRequestAlwaysUnread(method, messageId) ==
    [userId |-> "me", id |-> messageId,
     requestBody |-> [addLabelIds |-> <<"UNREAD">>, removeLabelIds |-> <<>>]]

\* markAsRead: this.modifyMessageLabels(messageId, [], ["UNREAD"])
\* markAsUnread: this.modifyMessageLabels(messageId, ["UNREAD"], [])
\* modifyMessageLabels: this.gmail.users.messages.modify({ userId: "me", id, requestBody })
MarkRequest(method, messageId) ==
    [userId |-> "me", id |-> messageId,
     requestBody |-> IF method = "markAsRead"
                     THEN [addLabelIds |-> <<>>, removeLabelIds |-> <<"UNREAD">>]
                     ELSE [addLabelIds |-> <<"UNREAD">>, removeLabelIds |-> <<>>]]

----------------------------------------------------------------------------
(* State machine *)

NoOptions == [to |-> <<>>, subject |-> <<>>, body |-> <<>>,
              inReplyTo |-> Undefined, threadId |-> Undefined]
NoRequest == [raw |-> <<>>, threadId |-> Undefined]
NoArgs == [none |-> TRUE]
NoResult == [threw |-> FALSE, value |-> [none |-> TRUE]]
\* the locals of the running handler and of the method it awaits; entered is
\* the process-wide client the handler found when it was invoked
NoLocals == [step |-> "none", first |-> 0, detailed |-> <<>>, queue |-> <<>>,
             acc |-> <<>>, kept |-> <<>>, listed |-> <<>>, entered |-> 0]
NoFiles == [credentials |-> FALSE, token |-> FALSE]

\* main(): const auth = await getAuthenticatedClient();
\* if (auth) gmailClient = new GmailApiClient(auth)
\* getAuthenticatedClient delivers a client when credentials and token are stored
Init ==
    /\ pc = "idle"
    /\ op = "none"
    /\ payload = NullPart
    /\ body = Returned(<<>>)
    /\ options = NoOptions
    /\ requestBody = NoRequest
    /\ files \in [credentials : BOOLEAN, token : BOOLEAN]
    /\ gmailClient = IF files.credentials /\ files.token THEN 1 ELSE 0
    /\ created = gmailClient
    /\ stage = "none"
    /\ args = NoArgs
    /\ calls = <<>>
    /\ replies = {}
    /\ pending = {}
    /\ locals = NoLocals
    /\ result = NoResult

\* The methods of the facade read nothing of the tool layer; their direct
\* invocations are explored on an instance the caller constructed itself, in
\* a process without stored credentials.
Standalone == pc = "idle" /\ created = 0 /\ files = NoFiles

Facade == <<payload, body, options, requestBody>>
Process == <<gmailClient, created, files>>

\* one remote call issued and awaited, the handler keeping the locals loc
AwaitWith(c, at, step, api, req, loc) ==
    /\ pc' = "await"
    /\ stage' = at
    /\ calls' = Append(calls, Call(c, api, req))
    /\ pending' = {Len(calls) + 1}
    /\ locals' = [loc EXCEPT !.step = step,
                             !.entered = IF pc = "idle" THEN gmailClient
                                         ELSE locals.entered]

Await(c, at, step, api, req) == AwaitWith(c, at, step, api, req, locals)

\* the invocation is over, with a value or with a rejection
Settled(r) ==
    /\ pc' = "done"
    /\ result' = r
    /\ pending' = {}
    /\ locals' = [locals EXCEPT !.entered = IF pc = "idle" THEN gmailClient ELSE @]
    /\ UNCHANGED <<stage, calls>>

\* getMessage(messageId): the remote get fails, or delivers the payload p
\* and const body = this.extractBody(msg.payload)
getMessage ==
    /\ Standalone
    /\ \E ok \in BOOLEAN, p \in Payloads :
           /\ op' = "getMessage"
           /\ args' = [messageId |-> "m1"]
           /\ payload' = IF ok THEN p ELSE NullPart
           /\ body' = IF ok THEN extractBody(p) ELSE Returned(<<>>)
           /\ pc' = "done"
           /\ stage' = "none"
           /\ calls' = <<Call(0, "messages.get", GetRequest("m1"))>>
           /\ replies' = {<<1, ok>>}
           /\ result' = GetMessageOutcome(ok, [RemoteMessage("m1") EXCEPT !.payload = p])
           /\ UNCHANGED <<options, requestBody, pending, locals, Process>>

\* createDraft up to the remote draft-create call it issues
createDraft ==
    /\ Standalone
    /\ pc' = "done"
    /\ op' = "createDraft"
    /\ \E o \in DraftOptions :
           /\ options' = o
           /\ requestBody' = DraftRequestBody(o)
    /\ calls' = <<Call(0, "drafts.create", [userId |-> "me"])>>
    /\ UNCHANGED <<payload, body, stage, args, replies, pending, locals, result, Process>>

\* listMessages(options), up to the remote list call
listMessages(o) ==
    /\ Standalone
    /\ op' = "listMessages"
    /\ args' = o
    /\ Await(0, "listMessages", "list", "messages.list", ListRequest(o))
    /\ UNCHANGED <<Facade, Process, result, replies>>

\* searchMessages(query, maxResults), up to the remote list call
searchMessages(query, maxResults) ==
    /\ Standalone
    /\ op' = "searchMessages"
    /\ args' = [query |-> query, maxResults |-> maxResults]
    /\ Await(0, "listMessages", "list", "messages.list",
             ListRequest(SearchOptions(query, maxResults)))
    /\ UNCHANGED <<Facade, Process, result, replies>>

\* markAsRead(messageId) and markAsUnread(messageId), up to the remote call
mark(method, messageId) ==
    /\ Standalone
    /\ op' = method
    /\ args' = [messageId |-> messageId]
    /\ Await(0, method, "single", "messages.modify", MarkRequest(method, messageId))
    /\ UNCHANGED <<Facade, Process, result, replies>>

\* async listDrafts(maxResults = 10), up to the remote list call
listDrafts(maxResults) ==
    /\ Standalone
    /\ op' = "listDrafts"
    /\ args' = [maxResults |-> maxResults]
    /\ Await(0, "listDrafts", "seqlist", "drafts.list",
             [userId |-> "me",
              maxResults |-> IF maxResults.has THEN maxResults.val ELSE 10])
    /\ UNCHANGED <<Facade, Process, result, replies>>

FacadeMethods == {"getMessage", "createDraft", "listMessages", "searchMessages",
                  "markAsRead", "markAsUnread", "listDrafts"}

----------------------------------------------------------------------------
(* Tool handlers *)

ListTools == {"gmail_list_emails", "gmail_search", "gmail_get_priority_emails",
              "gmail_find_newsletters", "gmail_find_unsubscribe_candidates"}

GuardedTools == ListTools \cup
    {"gmail_get_email", "gmail_create_draft", "gmail_list_drafts",
     "gmail_list_labels", "gmail_create_label", "gmail_modify_labels",
     "gmail_list_filters", "gmail_create_filter", "gmail_delete_filter",
     "gmail_mark_read", "gmail_mark_unread", "gmail_daily_summary"}

AuthTools == {"gmail_auth_status", "gmail_authenticate", "gmail_complete_auth"}

\* a tool set in which the daily summary does not ask for a client
NeedsClientButSummary(t) == t \in GuardedTools \ {"gmail_daily_summary"}

\* if (!gmailClient) return ... is the first statement of the handler
NeedsClient(t) == t \in GuardedTools

NotAuthenticated == "Not authenticated. Use gmail_auth_status first."
NotAuthenticatedSetup == "Not authenticated. To set up Gmail access:"
CriteriaRequired ==
    "At least one filter criteria is required (from, to, subject, or query)."

\* the text a handler's catch clause answers with, up to the error message
FailText(t) ==
    CASE t = "gmail_authenticate" -> "Failed to start authentication: "
      [] t = "gmail_complete_auth" -> "Failed to complete authentication: "
      [] t = "gmail_list_emails" -> "Failed to list emails: "
      [] t = "gmail_get_email" -> "Failed to get email: "
      [] t = "gmail_search" -> "Search failed: "
      [] t = "gmail_create_draft" -> "Failed to create draft: "
      [] t = "gmail_list_drafts" -> "Failed to list drafts: "
      [] t = "gmail_list_labels" -> "Failed to list labels: "
      [] t = "gmail_create_label" -> "Failed to create label: "
      [] t = "gmail_modify_labels" -> "Failed to modify labels: "
      [] t = "gmail_list_filters" -> "Failed to list filters: "
      [] t = "gmail_create_filter" -> "Failed to create filter: "
      [] t = "gmail_delete_filter" -> "Failed to delete filter: "
      [] OTHER -> "Failed: "

\* the text a handler answers with when its method delivered nothing
EmptyText(t) ==
    CASE t = "gmail_list_emails" -> "No emails found matching your criteria."
      [] t = "gmail_search" -> "No emails found for: "
      [] t = "gmail_get_priority_emails" -> "No priority emails found! Inbox zero achieved."
      [] t = "gmail_find_newsletters" -> "No obvious newsletter emails found."
      [] t = "gmail_find_unsubscribe_candidates" -> "No emails with unsubscribe links found."
      [] t = "gmail_list_drafts" -> "No drafts found."
      [] t = "gmail_get_email" -> "Email not found."
      [] OTHER -> "No filters configured."

\* a fixed fragment of the text a handler answers with on success
SuccessText(t) ==
    CASE t = "gmail_auth_status" -> "Authenticated as: "
      [] t = "gmail_authenticate" -> "Please visit this URL to authorize Gmail access:"
      [] t = "gmail_complete_auth" -> "Successfully authenticated as: "
      [] t = "gmail_list_emails" -> "ID: "
      [] t = "gmail_get_email" -> "From: "
      [] t = "gmail_search" -> " emails:"
      [] t = "gmail_create_draft" -> "Draft created successfully!"
      [] t = "gmail_list_drafts" -> " drafts:"
      [] t = "gmail_list_labels" -> "=== System Labels ==="
      [] t = "gmail_create_label" -> "Label created: "
      [] t = "gmail_modify_labels" -> "Labels updated successfully."
      [] t = "gmail_list_filters" -> " filters:"
      [] t = "gmail_create_filter" -> "Filter created successfully! ID: "
      [] t = "gmail_delete_filter" -> " deleted."
      [] t = "gmail_mark_read" -> "Email marked as read."
      [] t = "gmail_mark_unread" -> "Email marked as unread."
      [] t = "gmail_get_priority_emails" -> " priority emails:"
      [] t = "gmail_find_newsletters" -> " potential newsletter emails from "
      [] t = "gmail_find_unsubscribe_candidates" -> " senders with unsubscribe options:"
      [] OTHER -> "=== DAILY EMAIL SUMMARY ==="

PriorityQuery ==
    "is:unread -category:promotions -category:social -category:updates -category:forums"
NewsletterQuery ==
    "(unsubscribe OR newsletter OR \"email preferences\" OR \"manage subscriptions\") -is:sent"
UnsubscribeQuery == "unsubscribe -is:sent"
SummaryPriorityQuery ==
    "is:unread -category:promotions -category:social -category:updates newer_than:1d"
SummaryPromoQuery ==
    "is:unread (category:promotions OR category:updates) newer_than:1d"

Given(v) == [has |-> TRUE, val |-> v]

\* the options a listing tool hands to listMessages, through searchMessages
\* for all but gmail_list_emails
ToolListOptions(t, a) ==
    CASE t = "gmail_list_emails" ->
           [maxResults |-> a.maxResults, query |-> a.query, labelIds |-> Undefined]
      [] t = "gmail_search" -> SearchOptions(a.query, a.maxResults)
      [] t = "gmail_get_priority_emails" -> SearchOptions(Given(PriorityQuery), a.maxResults)
      [] t = "gmail_find_newsletters" -> SearchOptions(Given(NewsletterQuery), a.maxResults)
      [] OTHER -> SearchOptions(Given(UnsubscribeQuery), a.maxResults)

\* a filter request that also forwards the matching mail
CreateFilterRequestForwarding(a) ==
    [userId |-> "me",
     requestBody |-> [criteria |-> [from |-> a.from, to |-> a.to,
                                   subject |-> a.subject, query |-> a.query],
                      action |-> [addLabelIds |-> a.addLabelIds,
                                  removeLabelIds |-> a.removeLabelIds,
                                  forward |-> Given("x@example.com")]]]

\* gmailClient.createFilter({ criteria: { from, to, subject, query },
\*                            action: { addLabelIds, removeLabelIds } })
\* filters.create({ userId: "me", requestBody: { criteria, action } })
CreateFilterRequest(a) ==
    [userId |-> "me",
     requestBody |-> [criteria |-> [from |-> a.from, to |-> a.to,
                                   subject |-> a.subject, query |-> a.query],
                      action |-> [addLabelIds |-> a.addLabelIds,
                                  removeLabelIds |-> a.removeLabelIds,
                                  forward |-> NoString]]]

\* a test that takes an empty string for a criterion
NoCriteriaAbsentOnly(a) ==
    ~a.from.has /\ ~a.to.has /\ ~a.subject.has /\ ~a.query.has

\* !from && !to && !subject && !query
NoCriteria(a) ==
    ~TruthyString(a.from) /\ ~TruthyString(a.to)
    /\ ~TruthyString(a.subject) /\ ~TruthyString(a.query)

\* the characters of the message and thread ids of the remote service
Chars(id) ==
    CASE id = "m1" -> <<109, 49>>
      [] id = "m2" -> <<109, 50>>
      [] id = "m3" -> <<109, 51>>
      [] id = "m4" -> <<109, 52>>
      [] id = "t1" -> <<116, 49>>
      [] id = "t2" -> <<116, 50>>
      [] OTHER -> <<>>

\* options that name the message replied to whether or not it was fetched
ToolDraftOptionsUnfetched(a, original) ==
    [to |-> a.to, subject |-> a.subject, body |-> a.body,
     threadId |-> IF original.isNull THEN Undefined ELSE Some(Chars(original.threadId)),
     inReplyTo |-> IF TruthyString(a.replyToMessageId)
                   THEN Some(Chars(a.replyToMessageId.val)) ELSE Undefined]

\* the options gmail_create_draft hands to createDraft, original being what
\* getMessage(replyToMessageId) delivered, or null when it was not called
\* if (original) { threadId = original.threadId; inReplyTo = replyToMessageId; }
ToolDraftOptions(a, original) ==
    [to |-> a.to, subject |-> a.subject, body |-> a.body,
     threadId |-> IF original.isNull THEN Undefined ELSE Some(Chars(original.threadId)),
     inReplyTo |-> IF original.isNull THEN Undefined
                   ELSE Some(Chars(a.replyToMessageId.val))]

\* gmailClient.createDraft(options) and the remote request it issues
\* drafts.create({ userId: "me", requestBody: { message: { raw, threadId } } })
CreateDraftRequest(o) ==
    [userId |-> "me", options |-> o, requestBody |-> [message |-> DraftRequestBody(o)]]

\* U+2028 and U+2029, which with CR and LF are what . does not match
LS == 8232
PS == 8233
IsLineTerminator(c) == c \in {CR, LF, LS, PS}

\* the sender with nothing removed
DisplayNameWhole(from) == Trim(from)

\* msg.from.replace(/<.*>/, "").trim(): the first "<" that a ">" follows on
\* the same line, up to the last such ">", is removed
DisplayName(from) ==
    LET Closes(i) == {j \in (i + 1)..Len(from) :
                         /\ from[j] = GT
                         /\ \A k \in (i + 1)..(j - 1) : ~IsLineTerminator(from[k])}
        opens == {i \in 1..Len(from) : from[i] = LT /\ Closes(i) # {}}
        i == CHOOSE x \in opens : \A y \in opens : x <= y
        j == CHOOSE x \in Closes(i) : \A y \in Closes(i) : y <= x
    IN  IF opens = {} THEN Trim(from)
        ELSE Trim(SubSeq(from, 1, i - 1) \o SubSeq(from, j + 1, Len(from)))

\* bySender as Array.from(bySender.entries()): one entry per display name, in
\* the order of first occurrence, with the number of messages of that name
BySender(messages) ==
    LET name == [i \in 1..Len(messages) |-> DisplayName(messages[i].from)]
        firsts == SelectSeq([i \in 1..Len(messages) |-> i],
                            LAMBDA i : \A j \in 1..(i - 1) : name[j] # name[i])
    IN  [k \in 1..Len(firsts) |->
            [sender |-> name[firsts[k]],
             count |-> Cardinality({i \in 1..Len(messages) : name[i] = name[firsts[k]]})]]

\* .sort((a, b) => b[1] - a[1]): by falling count, entries of equal count
\* keeping their order
BySenderSorted(messages) ==
    LET entries == BySender(messages)
        Before(a, b) == \/ entries[a].count > entries[b].count
                        \/ entries[a].count = entries[b].count /\ a < b
        rank == [a \in 1..Len(entries) |->
                    1 + Cardinality({b \in 1..Len(entries) : Before(b, a)})]
    IN  [r \in 1..Len(entries) |->
            entries[CHOOSE a \in 1..Len(entries) : rank[a] = r]]

\* the first difference of two strings in code units, or that of their
\* lengths when one is a prefix of the other
FirstDifference(a, b) ==
    LET n == IF Len(a) < Len(b) THEN Len(a) ELSE Len(b)
        differ == {i \in 1..n : a[i] # b[i]}
        i == CHOOSE x \in differ : \A y \in differ : x <= y
    IN  IF differ = {} THEN Len(a) - Len(b) ELSE a[i] - b[i]

\* a comparison that answers with the difference itself, as an engine
\* without collation data does
LocaleCompareByCodeUnit(a, b) == FirstDifference(Chars(a), Chars(b))

\* msg.id.localeCompare(existing.latestId): the collator of the runtime
\* answers -1, 0 or 1
LocaleCompare(a, b) ==
    LET d == FirstDifference(Chars(a), Chars(b))
    IN  IF d < 0 THEN -1 ELSE IF d > 0 THEN 1 ELSE 0

\* bySender of gmail_find_unsubscribe_candidates as
\* Array.from(bySender.entries()): one entry per from value, in the order of
\* first occurrence
\* if (!existing || existing.count < msg.id.localeCompare(existing.latestId))
\*   bySender.set(from, { count: (existing?.count || 0) + 1, latestId: msg.id, ... })
\* else bySender.set(from, { ...existing, count: existing.count + 1 })
CandidatesBySender(messages) ==
    LET upTo[i \in 0..Len(messages)] ==
            IF i = 0 THEN <<>>
            ELSE LET msg == messages[i]
                     prev == upTo[i - 1]
                     at == {k \in 1..Len(prev) : prev[k].sender = msg.from}
                     k == CHOOSE x \in at : TRUE
                 IN  IF at = {}
                     THEN Append(prev, [sender |-> msg.from, count |-> 1,
                                        latestId |-> msg.id, subject |-> msg.subject])
                     ELSE IF prev[k].count < LocaleCompare(msg.id, prev[k].latestId)
                     THEN [prev EXCEPT ![k] = [sender |-> msg.from,
                                               count |-> prev[k].count + 1,
                                               latestId |-> msg.id,
                                               subject |-> msg.subject]]
                     ELSE [prev EXCEPT ![k].count = prev[k].count + 1]
    IN  upTo[Len(messages)]

\* .sort((a, b) => b[1].count - a[1].count).slice(0, 20)
Candidates(messages) ==
    LET entries == CandidatesBySender(messages)
        Before(a, b) == \/ entries[a].count > entries[b].count
                        \/ entries[a].count = entries[b].count /\ a < b
        rank == [a \in 1..Len(entries) |->
                    1 + Cardinality({b \in 1..Len(entries) : Before(b, a)})]
        sorted == [r \in 1..Len(entries) |->
                      entries[CHOOSE a \in 1..Len(entries) : rank[a] = r]]
    IN  SubSeq(sorted, 1, IF Len(sorted) < 20 THEN Len(sorted) ELSE 20)

\* the handler answers with a text
Text(t, d) == Settled([threw |-> FALSE, value |-> [text |-> t, data |-> d]])

Nothing == [none |-> TRUE]

\* the first remote call of a handler whose client exists
Start(t, a) ==
    LET c == gmailClient IN
    CASE t \in ListTools ->
           Await(c, "main", "list", "messages.list", ListRequest(ToolListOptions(t, a)))
           /\ UNCHANGED result
      [] t = "gmail_get_email" ->
           Await(c, "main", "get", "messages.get", GetRequest(a.messageId))
           /\ UNCHANGED result
      [] t = "gmail_create_draft" ->
           (IF TruthyString(a.replyToMessageId)
            THEN Await(c, "reply", "get", "messages.get", GetRequest(a.replyToMessageId.val))
            ELSE Await(c, "create", "single", "drafts.create",
                       CreateDraftRequest(ToolDraftOptions(a, NullMessage))))
           /\ UNCHANGED result
      [] t = "gmail_list_drafts" ->
           Await(c, "main", "seqlist", "drafts.list",
                 [userId |-> "me", maxResults |-> a.maxResults.val])
           /\ UNCHANGED result
      [] t = "gmail_list_labels" ->
           Await(c, "main", "seqlist", "labels.list", [userId |-> "me"])
           /\ UNCHANGED result
      [] t = "gmail_daily_summary" ->
           Await(c, "labels", "seqlist", "labels.list", [userId |-> "me"])
           /\ UNCHANGED result
      [] t = "gmail_create_label" ->
           Await(c, "main", "single", "labels.create",
                 [userId |-> "me",
                  requestBody |-> [name |-> a.name, labelListVisibility |-> "labelShow",
                                   messageListVisibility |-> "show"]])
           /\ UNCHANGED result
      [] t = "gmail_modify_labels" ->
           Await(c, "main", "single", "messages.modify",
                 [userId |-> "me", id |-> a.messageId,
                  requestBody |->
                      [addLabelIds |-> IF Truthy(a.addLabels) THEN a.addLabels.val ELSE <<>>,
                       removeLabelIds |-> IF Truthy(a.removeLabels)
                                          THEN a.removeLabels.val ELSE <<>>]])
           /\ UNCHANGED result
      [] t = "gmail_list_filters" ->
           Await(c, "main", "single", "filters.list", [userId |-> "me"])
           /\ UNCHANGED result
      [] t = "gmail_create_filter" ->
           IF NoCriteria(a)
           THEN Text(CriteriaRequired, Nothing)
           ELSE Await(c, "main", "single", "filters.create", CreateFilterRequest(a))
                /\ UNCHANGED result
      [] t = "gmail_delete_filter" ->
           Await(c, "main", "single", "filters.delete", [userId |-> "me", id |-> a.filterId])
           /\ UNCHANGED result
      [] t = "gmail_mark_read" ->
           Await(c, "main", "single", "messages.modify", MarkRequest("markAsRead", a.messageId))
           /\ UNCHANGED result
      [] OTHER ->
           Await(c, "main", "single", "messages.modify", MarkRequest("markAsUnread", a.messageId))
           /\ UNCHANGED result

\* a tool that works on the mailbox is invoked with the arguments a
Tool(t, a) ==
    /\ pc = "idle"
    /\ op' = t
    /\ args' = a
    /\ IF NeedsClient(t) /\ gmailClient = 0
       THEN Text(NotAuthenticated, Nothing)
       ELSE Start(t, a)
    /\ UNCHANGED <<Facade, Process, replies>>

\* a handler that gives the client up when the code exchange fails
ReplaceOrReset(ok, current, new) == IF ok THEN new ELSE 0

\* try { const auth = await completeOAuthFlow(code);
\*       gmailClient = new GmailApiClient(auth); ... } catch (err) { ... }
ReplaceClient(ok, current, new) == IF ok THEN new ELSE current

\* gmail_auth_status: const auth = await getAuthenticatedClient();
\* if (auth) { gmailClient = new GmailApiClient(auth);
\*             const profile = await gmailClient.getProfile(); ... }
AuthStatus ==
    /\ pc = "idle"
    /\ op' = "gmail_auth_status"
    /\ args' = NoArgs
    /\ IF files.credentials /\ files.token
       THEN /\ created < MaxClients
            /\ created' = created + 1
            /\ gmailClient' = created + 1
            /\ Await(created + 1, "profile", "single", "getProfile", [userId |-> "me"])
            /\ UNCHANGED <<files, result>>
       ELSE Text(NotAuthenticatedSetup, Nothing) /\ UNCHANGED Process
    /\ UNCHANGED <<Facade, replies>>

\* gmail_authenticate: initiateOAuthFlow() throws without credentials
Authenticate ==
    /\ pc = "idle"
    /\ op' = "gmail_authenticate"
    /\ args' = NoArgs
    /\ IF files.credentials
       THEN Text(SuccessText("gmail_authenticate"), Nothing)
       ELSE Text(FailText("gmail_authenticate"), Nothing)
    /\ UNCHANGED <<Facade, Process, replies>>

\* gmail_complete_auth: completeOAuthFlow(code) throws without credentials,
\* and otherwise awaits oAuth2Client.getToken(code)
CompleteAuth(code) ==
    /\ pc = "idle"
    /\ created < MaxClients
    /\ op' = "gmail_complete_auth"
    /\ args' = [code |-> code]
    /\ IF files.credentials
       THEN Await(0, "flow", "exchange", "oauth2.getToken", [code |-> code])
            /\ UNCHANGED result
       ELSE Text(FailText("gmail_complete_auth"), Nothing)
    /\ UNCHANGED <<Facade, Process, replies>>

\* the awaited method has delivered the outcome m to its caller: the rest of
\* the handler, up to its next remote call
Resume(m) ==
    CASE op \in FacadeMethods -> Settled(m) /\ UNCHANGED Process
      [] op = "gmail_auth_status" ->
           /\ IF m.threw
              THEN Settled([threw |-> TRUE, value |-> Nothing])
              ELSE Text(SuccessText(op), Nothing)
           /\ UNCHANGED Process
      [] op = "gmail_complete_auth" /\ stage = "profile" ->
           /\ IF m.threw
              THEN Text(FailText(op), Nothing)
              ELSE Text(SuccessText(op), Nothing)
           /\ UNCHANGED Process
      [] op \in GuardedTools /\ m.threw ->
           Text(FailText(op), Nothing) /\ UNCHANGED Process
      [] op = "gmail_get_email" /\ ~m.threw ->
           /\ IF m.value.isNull
              THEN Text(EmptyText(op), Nothing)
              ELSE Text(SuccessText(op), m.value)
           /\ UNCHANGED Process
      [] op = "gmail_create_draft" /\ stage = "reply" /\ ~m.threw ->
           /\ Await(gmailClient, "create", "single", "drafts.create",
                    CreateDraftRequest(ToolDraftOptions(args, m.value)))
           /\ UNCHANGED <<result, Process>>
      [] op = "gmail_daily_summary" /\ stage = "labels" /\ ~m.threw ->
           /\ AwaitWith(gmailClient, "priority", "list", "messages.list",
                        ListRequest(SearchOptions(Given(SummaryPriorityQuery), Given(10))),
                        [NoLocals EXCEPT !.kept = <<m.value>>])
           /\ UNCHANGED <<result, Process>>
      [] op = "gmail_daily_summary" /\ stage = "priority" /\ ~m.threw ->
           /\ AwaitWith(gmailClient, "promo", "list", "messages.list",
                        ListRequest(SearchOptions(Given(SummaryPromoQuery), Given(50))),
                        [NoLocals EXCEPT !.kept = Append(locals.kept, m.value)])
           /\ UNCHANGED <<result, Process>>
      [] op = "gmail_daily_summary" /\ stage = "promo" /\ ~m.threw ->
           /\ Text(SuccessText(op), Append(locals.kept, m.value))
           /\ UNCHANGED Process
      [] op \in ListTools /\ ~m.threw ->
           /\ Text(IF m.value = <<>> THEN EmptyText(op) ELSE SuccessText(op),
                   IF op = "gmail_find_unsubscribe_candidates"
                   THEN [messages |-> m.value, candidates |-> Candidates(m.value)]
                   ELSE [messages |-> m.value, senders |-> BySenderSorted(m.value)])
           /\ UNCHANGED Process
      [] OTHER ->
           /\ IF op \in {"gmail_list_drafts", "gmail_list_filters"} /\ m.value = <<>>
              THEN Text(EmptyText(op), Nothing)
              ELSE Text(SuccessText(op), m.value)
           /\ UNCHANGED Process

LongListings == ListResponses(MaxListed)
ShortListings == ListResponses(MaxShort)

\* the mailbox listings the remote list call can deliver to the invocation
Listed == IF op = "gmail_daily_summary" THEN ShortListings ELSE LongListings

\* the remote list call of listMessages settles: it fails, or delivers ids
\* const messages = response.data.messages || [];
\* Promise.all(messages.map((msg) => this.getMessage(msg.id!)))
ListSettles ==
    /\ pc = "await" /\ locals.step = "list"
    /\ \E ok \in BOOLEAN, resp \in Listed :
           /\ LET ids == IF Truthy(resp) THEN resp.val ELSE <<>>
                  c == calls[Len(calls)].client
              IN  IF ~ok THEN Resume(Thrown)
                  ELSE IF ids = <<>> THEN Resume(Returned(<<>>))
                  ELSE /\ pc' = "await"
                       /\ calls' = calls \o [k \in 1..Len(ids) |->
                                                Call(c, "messages.get", GetRequest(ids[k]))]
                       /\ pending' = {Len(calls) + k : k \in 1..Len(ids)}
                       /\ locals' = [locals EXCEPT !.step = "gets", !.first = Len(calls),
                                                   !.queue = ids,
                                                   !.detailed = [k \in 1..Len(ids) |-> Unsettled]]
                       /\ UNCHANGED <<stage, result, Process>>
           /\ replies' = replies \cup {<<Len(calls), ok>>}
           /\ UNCHANGED <<op, args, Facade>>

\* one of the concurrent gets settles; after the last, Promise.all resolves
GetSettles(i, ok) ==
    /\ pc = "await" /\ locals.step = "gets"
    /\ i \in pending
    /\ LET m == GetMessageOutcome(ok, RemoteMessage(calls[i].req.id))
           detailed == Settle(locals.detailed, i - locals.first, m.value)
       IN  IF m.threw THEN Resume(Thrown)
           ELSE IF pending = {i}
           THEN Resume(Returned(NonNull(detailed)))
           ELSE /\ pending' = pending \ {i}
                /\ locals' = [locals EXCEPT !.detailed = detailed]
                /\ UNCHANGED <<pc, stage, calls, result, Process>>
    /\ replies' = replies \cup {<<i, ok>>}
    /\ UNCHANGED <<op, args, Facade>>

\* the remote get of a getMessage a handler awaits settles
GetSettlesAlone(ok) ==
    /\ pc = "await" /\ locals.step = "get"
    /\ Resume(GetMessageOutcome(ok, RemoteMessage(calls[Len(calls)].req.id)))
    /\ replies' = replies \cup {<<Len(calls), ok>>}
    /\ UNCHANGED <<op, args, Facade>>

\* the single remote call of the awaited method settles; a filter listing
\* may be empty: response.data.filter || []
SingleSettles(ok, empty) ==
    /\ pc = "await" /\ locals.step = "single"
    /\ empty => ok /\ calls[Len(calls)].api = "filters.list"
    /\ Resume([threw |-> ~ok,
               value |-> IF calls[Len(calls)].api # "filters.list" THEN Nothing
                         ELSE IF empty THEN <<>> ELSE <<"f1">>])
    /\ replies' = replies \cup {<<Len(calls), ok>>}
    /\ UNCHANGED <<op, args, Facade>>

LabelIds == {"INBOX", "Label_1"}
\* the ids of the listed draft entries, "" for an entry that carries no id
DraftEntries == {"d1", "d2", ""}

\* what a remote list call can deliver over the given entries
EntriesOver(set, n) ==
    {Undefined} \cup {Some(l) : l \in {m \in Listings(set, n) : Distinct(m)}}

LabelListings == EntriesOver(LabelIds, MaxShort)
DraftListings == EntriesOver(DraftEntries, MaxDrafts)

\* what the remote label-list and draft-list calls can deliver
Entries ==
    IF calls[Len(calls)].api = "labels.list" THEN LabelListings ELSE DraftListings

\* the remote get for one entry of a listing that is fetched entry by entry
EntryGet ==
    IF calls[Len(calls)].api \in {"labels.list", "labels.get"}
    THEN "labels.get" ELSE "drafts.get"

EntryRequest(e) ==
    IF EntryGet = "labels.get" THEN [userId |-> "me", id |-> e]
    ELSE [userId |-> "me", id |-> e, format |-> "full"]

\* a loop that fetches every listed draft, with or without an id
EveryDraft(all) == all

\* for (const draft of response.data.drafts || []) { if (draft.id) { ... } }
WithId(all) == SelectSeq(all, LAMBDA e : e # "")

\* the remote list call of listLabels or listDrafts settles
\* for (const label of response.data.labels || []) await ...labels.get(...)
\* for (const draft of response.data.drafts || []) if (draft.id) await ...drafts.get(...)
EntriesSettle(ok, resp) ==
    /\ pc = "await" /\ locals.step = "seqlist"
    /\ resp \in Entries
    /\ LET all == IF Truthy(resp) THEN resp.val ELSE <<>>
           queue == IF EntryGet = "labels.get" THEN all ELSE WithId(all)
           c == calls[Len(calls)].client
       IN  IF ~ok THEN Resume(Thrown)
           ELSE IF queue = <<>> THEN Resume(Returned(<<>>))
           ELSE /\ AwaitWith(c, stage, "seqget", EntryGet, EntryRequest(queue[1]),
                             [locals EXCEPT !.queue = queue, !.acc = <<>>,
                                            !.listed = all])
                /\ UNCHANGED <<result, Process>>
    /\ replies' = replies \cup {<<Len(calls), ok>>}
    /\ UNCHANGED <<op, args, Facade>>

\* the remote get for the entry at the head of the queue settles
EntrySettles(ok) ==
    /\ pc = "await" /\ locals.step = "seqget"
    /\ LET acc == Append(locals.acc, Head(locals.queue))
           rest == Tail(locals.queue)
           c == calls[Len(calls)].client
       IN  IF ~ok THEN Resume(Thrown)
           ELSE IF rest = <<>> THEN Resume(Returned(acc))
           ELSE /\ AwaitWith(c, stage, "seqget", EntryGet, EntryRequest(rest[1]),
                             [locals EXCEPT !.queue = rest, !.acc = acc])
                /\ UNCHANGED <<result, Process>>
    /\ replies' = replies \cup {<<Len(calls), ok>>}
    /\ UNCHANGED <<op, args, Facade>>

\* how the code exchange and the write of the token file can end: the
\* exchange failed; it succeeded and the write failed, leaving the file as it
\* was or without a readable token; both succeeded
ExchangeOutcomes == {"failed", "unsaved", "damaged", "saved"}

\* a flow that writes the token file whatever the exchange delivered
AfterExchangeEager(f, outcome) == [f EXCEPT !.token = TRUE]

\* const { tokens } = await oAuth2Client.getToken(code);
\* oAuth2Client.setCredentials(tokens); await saveToken(tokens);
AfterExchange(f, outcome) ==
    IF outcome = "saved" THEN [f EXCEPT !.token = TRUE]
    ELSE IF outcome = "damaged" THEN [f EXCEPT !.token = FALSE]
    ELSE f

\* the code exchange of completeOAuthFlow settles, and with it saveToken;
\* gmail_complete_auth goes on to gmailClient = new GmailApiClient(auth) and
\* getProfile, or to its catch clause
ExchangeSettles(outcome) ==
    /\ pc = "await" /\ locals.step = "exchange"
    /\ files' = AfterExchange(files, outcome)
    /\ gmailClient' = ReplaceClient(outcome = "saved", gmailClient, created + 1)
    /\ IF outcome = "saved"
       THEN /\ created' = created + 1
            /\ Await(created + 1, "profile", "single", "getProfile", [userId |-> "me"])
            /\ UNCHANGED result
       ELSE Text(FailText(op), Nothing) /\ UNCHANGED created
    /\ replies' = replies \cup {<<Len(calls), outcome # "failed">>}
    /\ UNCHANGED <<op, args, Facade>>

\* the suspended handler reads the process-wide client again when it resumes:
\* gmail_create_draft after getMessage, gmail_daily_summary after listLabels
\* and after its first searchMessages
ReadsClientAgain ==
    \/ op = "gmail_create_draft" /\ stage = "reply"
    \/ op = "gmail_daily_summary" /\ stage \in {"labels", "priority"}

\* While a handler is suspended on a remote call the server runs other
\* invocations. A gmail_auth_status that finds stored credentials and token,
\* or a gmail_complete_auth whose code exchange succeeds, assigns a new
\* instance to gmailClient; told apart from the suspended handler only
\* where that handler reads gmailClient again.
ConcurrentAuth(t) ==
    /\ pc = "await" /\ ReadsClientAgain
    /\ created < MaxClients
    /\ files.credentials
    /\ t = "gmail_auth_status" => files.token
    /\ files' = [files EXCEPT !.token = TRUE]
    /\ created' = created + 1
    /\ gmailClient' = created + 1
    /\ UNCHANGED <<pc, op, stage, args, calls, replies, pending, locals, result, Facade>>

\* the invocation has returned and its values are discarded
Discard ==
    /\ pc = "done"
    /\ pc' = "idle"
    /\ op' = "none"
    /\ payload' = NullPart
    /\ body' = Returned(<<>>)
    /\ options' = NoOptions
    /\ requestBody' = NoRequest
    /\ stage' = "none"
    /\ args' = NoArgs
    /\ calls' = <<>>
    /\ replies' = {}
    /\ pending' = {}
    /\ locals' = NoLocals
    /\ result' = NoResult
    /\ UNCHANGED Process

ListOptions ==
    {NoListOptions,
     [maxResults |-> Given(5), query |-> Given("is:unread"), labelIds |-> Undefined],
     [maxResults |-> NoNumber, query |-> NoString, labelIds |-> Some(<<"INBOX">>)]}

SearchArgs ==
    {[query |-> Given("is:unread"), maxResults |-> NoNumber],
     [query |-> Given("from:alice@example.com subject:\"x\""), maxResults |-> Given(5)]}

\* the arguments the tools are invoked with
ToolArgs(t) ==
    CASE t = "gmail_list_emails" -> {[query |-> NoString, maxResults |-> Given(20)]}
      [] t = "gmail_search" ->
           {[query |-> Given("from:alice@example.com subject:\"x\""), maxResults |-> Given(5)]}
      [] t = "gmail_get_priority_emails" -> {[maxResults |-> Given(15)]}
      [] t \in {"gmail_find_newsletters", "gmail_find_unsubscribe_candidates"} ->
           {[maxResults |-> Given(30)]}
      [] t \in {"gmail_get_email", "gmail_mark_read", "gmail_mark_unread"} ->
           {[messageId |-> id] : id \in {"m1", "m3"}}
      [] t = "gmail_create_draft" ->
           {[to |-> Recipient, subject |-> TestSubject, body |-> BodyText,
             replyToMessageId |-> r] : r \in {NoString, Given(""), Given("m1")}}
      [] t = "gmail_list_drafts" -> {[maxResults |-> Given(10)]}
      [] t = "gmail_create_label" -> {[name |-> "Work"]}
      [] t = "gmail_modify_labels" ->
           {[messageId |-> "m1", addLabels |-> Undefined, removeLabels |-> Some(<<"UNREAD">>)],
            [messageId |-> "m1", addLabels |-> Some(<<"STARRED">>), removeLabels |-> Undefined]}
      [] t = "gmail_create_filter" ->
           {[from |-> f, to |-> NoString, subject |-> NoString, query |-> q,
             addLabelIds |-> Some(<<"Label_1">>), removeLabelIds |-> Undefined] :
               f \in {NoString, Given(""), Given("news@example.com")},
               q \in {NoString, Given("unsubscribe")}}
           \cup {[from |-> NoString, to |-> t2, subject |-> s2, query |-> Given(""),
                  addLabelIds |-> Undefined, removeLabelIds |-> Some(<<"UNREAD">>)] :
                    t2 \in {Given(""), Given("me@example.com")},
                    s2 \in {Given(""), Given("Sale")}}
      [] t = "gmail_delete_filter" -> {[filterId |-> "f1"]}
      [] OTHER -> {NoArgs}

Next ==
    \/ getMessage
    \/ createDraft
    \/ \E o \in ListOptions : listMessages(o)
    \/ \E a \in SearchArgs : searchMessages(a.query, a.maxResults)
    \/ \E maxResults \in {NoNumber, Given(5)} : listDrafts(maxResults)
    \/ \E method \in {"markAsRead", "markAsUnread"}, id \in MessageIds : mark(method, id)
    \/ \E t \in GuardedTools : \E a \in ToolArgs(t) : Tool(t, a)
    \/ AuthStatus
    \/ Authenticate
    \/ \E code \in {"4/0Ab"} : CompleteAuth(code)
    \/ \E t \in {"gmail_auth_status", "gmail_complete_auth"} : ConcurrentAuth(t)
    \/ \E outcome \in ExchangeOutcomes : ExchangeSettles(outcome)
    \/ ListSettles
    \/ \E i \in 1..(MaxListed + 1), ok \in BOOLEAN : GetSettles(i, ok)
    \/ \E ok \in BOOLEAN : GetSettlesAlone(ok)
    \/ \E ok, empty \in BOOLEAN : SingleSettles(ok, empty)
    \/ \E ok \in BOOLEAN, resp \in LabelListings \cup DraftListings :
          EntriesSettle(ok, resp)
    \/ \E ok \in BOOLEAN : EntrySettles(ok)
    \/ Discard

Spec == Init /\ [][Next]_vars

----------------------------------------------------------------------------
(* Properties of extractBody *)

Extracted == pc = "done" /\ op = "getMessage"

\* "a b c"
ABC == <<97, SP, 98, SP, 99>>

PlainWithData(p) == ~p.isNull /\ p.mimeType = "text/plain" /\ Truthy(p.data)
HtmlWithData(p) == ~p.isNull /\ p.mimeType = "text/html" /\ Truthy(p.data)
Children(p) == IF p.isNull \/ ~p.parts.has THEN <<>> ELSE p.parts.val

\* C1: a root of type text/plain with non-empty body data yields exactly the
\* base64-decoded UTF-8 text of that data, whatever children it has; the
\* data "SGVsbG8gV29ybGQ=" yields "Hello World".
C1_PlainRootDecoded ==
    (Extracted /\ PlainWithData(payload)) =>
        /\ body = Returned(ToStringUtf8(BufferFromBase64(payload.data.val)))
        /\ (payload.data.val = HelloWorldData => body.value = HelloWorld)

\* a text/plain root with data and with a child that has a body of its own
C1_Witness ==
    /\ Extracted /\ PlainWithData(payload)
    /\ payload.data.val = HelloWorldData
    /\ \E i \in 1..Len(Children(payload)) : HtmlWithData(Children(payload)[i])
    /\ body.value = HelloWorld

\* C2: a root of type text/html with body data yields a text with no
\* "<"...">" substring, no two adjacent whitespace characters and no leading
\* or trailing whitespace, whose characters other than whitespace are those
\* of the decoded text outside its tags; "<p>Hello <b>World</b></p>" yields
\* "Hello World".
C2_HtmlRootStripped ==
    (Extracted /\ HtmlWithData(payload)) =>
        LET r == body.value
            html == ToStringUtf8(BufferFromBase64(payload.data.val))
            NoWs(s) == SelectSeq(s, LAMBDA c : ~IsWhiteSpace(c))
        IN  /\ ~body.threw
            /\ ~\E i, j \in 1..Len(r) : i < j /\ r[i] = LT /\ r[j] = GT
            /\ ~\E i \in 1..(Len(r) - 1) : IsWhiteSpace(r[i]) /\ IsWhiteSpace(r[i + 1])
            /\ r # <<>> => ~IsWhiteSpace(r[1]) /\ ~IsWhiteSpace(r[Len(r)])
            /\ \A i \in 1..Len(r) : IsWhiteSpace(r[i]) => r[i] = SP
            /\ NoWs(r) = NoWs(StripTags(html))
            /\ (payload.data.val = HtmlHelloData => r = HelloWorld)
            /\ (payload.data.val = SpacedData => r = ABC)

\* an HTML root with tags, whitespace runs and outer whitespace
C2_Witness ==
    /\ Extracted /\ HtmlWithData(payload)
    /\ payload.data.val = SpacedData
    /\ body.value = ABC

\* C3: a root without body data whose children are a text/plain part with
\* non-empty data followed by a text/html part yields the decoded text of the
\* plain part, whatever the HTML part holds.
C3_PlainBeforeHtml ==
    (/\ Extracted /\ ~payload.isNull /\ ~Truthy(payload.data)
     /\ Len(Children(payload)) = 2
     /\ PlainWithData(Children(payload)[1])
     /\ ~Children(payload)[2].isNull
     /\ Children(payload)[2].mimeType = "text/html") =>
        body = Returned(ToStringUtf8(BufferFromBase64(Children(payload)[1].data.val)))

\* multipart/alternative [text/plain "Hello World", text/html " a <i>b</i> c "]
C3_Witness ==
    /\ Extracted /\ payload.mimeType = "multipart/alternative"
    /\ ~Truthy(payload.data)
    /\ Len(Children(payload)) = 2
    /\ PlainWithData(Children(payload)[1])
    /\ Children(payload)[1].data.val = HelloWorldData
    /\ HtmlWithData(Children(payload)[2])
    /\ Children(payload)[2].data.val = SpacedData
    /\ body.value = HelloWorld

\* the child i is an HTML part whose stripped text is not empty
HtmlNonEmpty(p) ==
    HtmlWithData(p) /\ StripHtml(ToStringUtf8(BufferFromBase64(p.data.val))) # <<>>

\* C4: a root without body data whose first child with a body of its own is a
\* text/html part with non-empty stripped text, and which has a text/plain
\* part with data after it, yields the stripped text of the HTML part.
C4_HtmlBeforePlain ==
    (Extracted /\ ~payload.isNull /\ ~Truthy(payload.data)) =>
        \A i, j \in 1..Len(Children(payload)) :
            LET ps == Children(payload)
            IN  (/\ i < j
                 /\ HtmlNonEmpty(ps[i])
                 /\ PlainWithData(ps[j])
                 /\ \A k \in 1..(i - 1) : ~PlainWithData(ps[k]) /\ ~HtmlNonEmpty(ps[k]))
                => body = Returned(StripHtml(ToStringUtf8(BufferFromBase64(ps[i].data.val))))

\* multipart [text/html " a <i>b</i> c ", text/plain "Hello World"] yields "a b c"
C4_Witness ==
    /\ Extracted /\ ~Truthy(payload.data)
    /\ Len(Children(payload)) = 2
    /\ HtmlWithData(Children(payload)[1])
    /\ Children(payload)[1].data.val = SpacedData
    /\ PlainWithData(Children(payload)[2])
    /\ Children(payload)[2].data.val = HelloWorldData
    /\ body.value = ABC

\* a part that has neither body data nor child parts
Bare(p) == p.isNull \/ (~Truthy(p.data) /\ Children(p) = <<>>)

\* C5: a null payload, and a part with no body data and no child parts
\* whatever its type, yield the empty string and no exception; a child
\* without body data and children is skipped: the result is that of the same
\* root without such children.
C5_TotalOnBare ==
    Extracted =>
        /\ Bare(payload) => body = Returned(<<>>)
        /\ (~payload.isNull /\ ~Truthy(payload.data) /\ payload.parts.has) =>
              /\ ~body.threw
              /\ body = extractBody([payload EXCEPT !.parts =
                           Some(SelectSeq(payload.parts.val, LAMBDA c : ~Bare(c)))])

\* multipart [attachment without data, text/plain "Hello World"]
C5_Witness ==
    /\ Extracted /\ ~Truthy(payload.data)
    /\ Len(Children(payload)) = 2
    /\ Children(payload)[1] = Part("application/pdf", TRUE, Undefined, Undefined)
    /\ PlainWithData(Children(payload)[2])
    /\ body = Returned(HelloWorld)

----------------------------------------------------------------------------
(* Properties of createDraft *)

Drafted == pc = "done" /\ op = "createDraft"

\* the text a receiver decodes from the raw value of the request
DecodedRaw == ToStringUtf8(BufferFromBase64(requestBody.raw))

\* the indices at which a CRLF starts
Separators(s) == {i \in 1..(Len(s) - 1) : s[i] = CR /\ s[i + 1] = LF}

\* s.split("\r\n")
SplitCRLF(s) ==
    LET seps == Separators(s)
        n == Cardinality(seps)
        sep(k) == CHOOSE i \in seps : Cardinality({j \in seps : j < i}) = k - 1
    IN  [k \in 1..(n + 1) |->
            SubSeq(s, IF k = 1 THEN 1 ELSE sep(k - 1) + 2,
                      IF k = n + 1 THEN Len(s) ELSE sep(k) - 1)]

\* index of the first empty line, 0 if there is none
FirstBlank(lines) ==
    IF \E i \in 1..Len(lines) : lines[i] = <<>>
    THEN CHOOSE i \in 1..Len(lines) :
             lines[i] = <<>> /\ \A k \in 1..(i - 1) : lines[k] # <<>>
    ELSE 0

\* the lines before the first empty line
HeaderBlock(s) ==
    LET lines == SplitCRLF(s)
        k == FirstBlank(lines)
    IN  IF k = 0 THEN lines ELSE SubSeq(lines, 1, k - 1)

\* the text after the first empty line
BodyOf(s) ==
    LET lines == SplitCRLF(s)
        k == FirstBlank(lines)
    IN  IF k = 0 THEN <<>> ELSE Join(SubSeq(lines, k + 1, Len(lines)), CRLF)

StartsWith(s, prefix) ==
    Len(s) >= Len(prefix) /\ SubSeq(s, 1, Len(prefix)) = prefix

Contains(s, sub) ==
    \E i \in 1..(Len(s) - Len(sub) + 1) : SubSeq(s, i, i + Len(sub) - 1) = sub

\* the values of the header lines that start with prefix
HeaderValues(s, prefix) ==
    LET hs == SelectSeq(HeaderBlock(s), LAMBDA l : StartsWith(l, prefix))
    IN  [i \in 1..Len(hs) |-> SubSeq(hs[i], Len(prefix) + 1, Len(hs[i]))]

IsBase64UrlChar(c) ==
    c \in 65..90 \/ c \in 97..122 \/ c \in 48..57 \/ c \in {45, 95}

\* C6: the raw value sent to the remote draft-create call is a non-empty
\* string over [A-Za-z0-9_-]: no "+", no "/", no "=".
C6_RawIsBase64Url ==
    Drafted =>
        /\ requestBody.raw # <<>>
        /\ \A i \in 1..Len(requestBody.raw) : IsBase64UrlChar(requestBody.raw[i])

\* a draft whose raw value uses "-" and "_" and is not a multiple of 4 long
C6_Witness ==
    /\ Drafted
    /\ \E i \in 1..Len(requestBody.raw) : requestBody.raw[i] = 45
    /\ \E i \in 1..Len(requestBody.raw) : requestBody.raw[i] = 95
    /\ Len(requestBody.raw) % 4 # 0

\* "In-Reply-To:"
InReplyToName == <<73, 110, 45, 82, 101, 112, 108, 121, 45, 84, 111, 58>>
\* "References:"
ReferencesName == <<82, 101, 102, 101, 114, 101, 110, 99, 101, 115, 58>>

\* C7: the header block of the built message holds the lines
\* "In-Reply-To: <inReplyTo>" and "References: <inReplyTo>", each exactly
\* once, when inReplyTo is given, and holds no In-Reply-To and no References
\* line when it is not, for every to, subject and body.
C7_ReplyHeaders ==
    Drafted =>
        LET irt == HeaderValues(DecodedRaw, InReplyToName)
            ref == HeaderValues(DecodedRaw, ReferencesName)
        IN  IF Truthy(options.inReplyTo)
            THEN /\ irt = <<<<SP>> \o options.inReplyTo.val>>
                 /\ ref = <<<<SP>> \o options.inReplyTo.val>>
            ELSE irt = <<>> /\ ref = <<>>

\* C8: decoding the raw value and parsing it as header lines, an empty line
\* and a body recovers to from the To: line, subject from the Subject: line,
\* and body, for every to, subject and body.
C8_RoundTrip ==
    Drafted =>
        /\ HeaderValues(DecodedRaw, ToPrefix) = <<options.to>>
        /\ HeaderValues(DecodedRaw, SubjectPrefix) = <<options.subject>>
        /\ BodyOf(DecodedRaw) = options.body

\* "To: r@example.com\r\nSubject: Test\r\nContent-Type: text/plain;
\* charset=utf-8\r\n\r\nBody"
ExampleMessage ==
    <<84, 111, 58, 32, 114, 64, 101, 120, 97, 109, 112, 108, 101, 46, 99,
      111, 109, 13, 10, 83, 117, 98, 106, 101, 99, 116, 58, 32, 84, 101,
      115, 116, 13, 10, 67, 111, 110, 116, 101, 110, 116, 45, 84, 121, 112,
      101, 58, 32, 116, 101, 120, 116, 47, 112, 108, 97, 105, 110, 59, 32,
      99, 104, 97, 114, 115, 101, 116, 61, 117, 116, 102, 45, 56, 13, 10,
      13, 10, 66, 111, 100, 121>>

\* the base64url text of ExampleMessage
ExampleRaw ==
    <<86, 71, 56, 54, 73, 72, 74, 65, 90, 88, 104, 104, 98, 88, 66, 115, 90,
      83, 53, 106, 98, 50, 48, 78, 67, 108, 78, 49, 89, 109, 112, 108, 89,
      51, 81, 54, 73, 70, 82, 108, 99, 51, 81, 78, 67, 107, 78, 118, 98,
      110, 82, 108, 98, 110, 81, 116, 86, 72, 108, 119, 90, 84, 111, 103,
      100, 71, 86, 52, 100, 67, 57, 119, 98, 71, 70, 112, 98, 106, 115, 103,
      89, 50, 104, 104, 99, 110, 78, 108, 100, 68, 49, 49, 100, 71, 89, 116,
      79, 65, 48, 75, 68, 81, 112, 67, 98, 50, 82, 53>>

\* C9: the decoded raw message is "To: <to>", "Subject: <subject>",
\* "Content-Type: text/plain; charset=utf-8", then "In-Reply-To: <id>" and
\* "References: <id>" if inReplyTo is given (a non-empty string), each
\* followed by CRLF, then one more CRLF, then the body as it was given.
C9_MessageLayout ==
    Drafted =>
        /\ DecodedRaw =
              <<84, 111, 58, 32>> \o options.to \o <<13, 10>>
              \o <<83, 117, 98, 106, 101, 99, 116, 58, 32>> \o options.subject \o <<13, 10>>
              \o ContentTypeHeader \o <<13, 10>>
              \o (IF Truthy(options.inReplyTo)
                  THEN InReplyToName \o <<32>> \o options.inReplyTo.val \o <<13, 10>>
                       \o ReferencesName \o <<32>> \o options.inReplyTo.val \o <<13, 10>>
                  ELSE <<>>)
              \o <<13, 10>> \o options.body
        /\ (/\ options.to = Recipient /\ options.subject = TestSubject
            /\ options.body = BodyText /\ ~options.inReplyTo.has)
           => DecodedRaw = ExampleMessage /\ requestBody.raw = ExampleRaw

\* the draft {to: "r@example.com", subject: "Test", body: "Body"}
C9_Witness ==
    /\ Drafted
    /\ options.to = Recipient /\ options.subject = TestSubject
    /\ options.body = BodyText /\ ~options.inReplyTo.has
    /\ requestBody.raw = ExampleRaw

\* C10: the request carries the caller's threadId as it was given, undefined
\* when it was not, and the raw value does not depend on it: it is the raw
\* value of the same draft with any other threadId, and the decoded message
\* does not contain the thread id.
C10_ThreadIdPassedThrough ==
    Drafted =>
        /\ requestBody.threadId = options.threadId
        /\ \A t \in ThreadIds :
              DraftRequestBody([options EXCEPT !.threadId = t]).raw = requestBody.raw
        /\ Truthy(options.threadId) => ~Contains(DecodedRaw, options.threadId.val)

\* a reply draft with a thread id
C10_Witness ==
    /\ Drafted
    /\ options.threadId = Some(Thread123)
    /\ requestBody.threadId = Some(Thread123)
    /\ options.inReplyTo = Some(OrigId)

----------------------------------------------------------------------------
(* Properties of the remote calls and of the tool handlers *)

Succeeded(i) == <<i, TRUE>> \in replies
Failed(i) == <<i, FALSE>> \in replies
Replied(i) == Succeeded(i) \/ Failed(i)

Done(t) == pc = "done" /\ op = t

AllowedApis ==
    {"messages.list", "messages.get", "messages.modify",
     "drafts.create", "drafts.list", "drafts.get",
     "labels.list", "labels.get", "labels.create",
     "filters.list", "filters.create", "filters.delete", "getProfile"}

\* C11: the server never issues a remote message-send or draft-send; apart
\* from the OAuth token exchange, which is no mail-service operation, the
\* remote operations it issues are messages list/get/modify, drafts
\* create/list/get, labels list/get/create, filters list/create/delete and
\* getProfile; and no filter-create request carries a forward action.
C11_NoSendNoForward ==
    \A i \in 1..Len(calls) :
        /\ calls[i].api \notin {"messages.send", "drafts.send"}
        /\ calls[i].api \in AllowedApis \cup {"oauth2.getToken"}
        /\ calls[i].api = "filters.create" =>
               ~calls[i].req.requestBody.action.forward.has

C11_Witness ==
    /\ Done("gmail_create_filter")
    /\ Len(calls) = 1 /\ Succeeded(1)
    /\ calls[1].api = "filters.create"
    /\ calls[1].req.requestBody.action.addLabelIds = Some(<<"Label_1">>)

\* C12: a tool other than gmail_auth_status, gmail_authenticate and
\* gmail_complete_auth that is invoked while the process-wide client is null
\* answers at once with exactly "Not authenticated. Use gmail_auth_status
\* first.", issues no remote call and leaves the client null.
C12_NullClientRefused ==
    [][(pc = "idle" /\ gmailClient = 0 /\ op' \notin FacadeMethods \cup AuthTools)
       => /\ pc' = "done"
          /\ result' = [threw |-> FALSE,
                        value |-> [text |-> "Not authenticated. Use gmail_auth_status first.",
                                   data |-> Nothing]]
          /\ calls' = <<>>
          /\ gmailClient' = 0]_vars

C12_Witness ==
    /\ Done("gmail_daily_summary")
    /\ gmailClient = 0
    /\ result.value.text = NotAuthenticated
    /\ calls = <<>>

\* C13: no invocation of a tool handler, gmail_auth_status included, rejects:
\* a failure of a remote or authentication call is caught and answered with a
\* text.
C13_NoInvocationRejects ==
    (pc = "done" /\ op \in GuardedTools \cup AuthTools) => ~result.threw

\* C14: getMessage never rejects; it delivers null when the remote get fails
\* or the extraction throws, and a message only when the remote get
\* succeeded.  The same holds of every get that listMessages has settled.
C14_GetMessageNeverRejects ==
    /\ Done("getMessage") =>
           /\ ~result.threw
           /\ (Failed(1) \/ (Succeeded(1) /\ extractBody(payload).threw))
                  => result.value.isNull
           /\ ~result.value.isNull => Succeeded(1)
    /\ locals.step = "gets" =>
           \A k \in 1..Len(locals.detailed) :
               /\ Failed(locals.first + k) /\ (locals.first + k) \notin pending
                      => (locals.detailed[k].isNull /\ locals.detailed[k].settled) \/ pc = "done"
               /\ ~locals.detailed[k].isNull => Succeeded(locals.first + k)

C14_Witness ==
    /\ Done("getMessage")
    /\ Failed(1)
    /\ ~result.threw /\ result.value.isNull

\* the messages a finished listing delivered to its caller
Delivered == IF op \in FacadeMethods THEN result.value ELSE result.value.data.messages
Listing == {"listMessages", "searchMessages"} \cup ListTools
ListingDone == pc = "done" /\ op \in Listing /\ locals.step = "gets" /\ ~result.threw

\* C15: listMessages delivers the messages in the order of the remote
\* listing, in whatever order the concurrent gets complete: each settled get
\* sits at the position of its id in the listing, and the delivered messages
\* are the listed ids whose get succeeded, in listing order.
C15_ListingOrderKept ==
    /\ locals.step = "gets" =>
           \A k \in 1..Len(locals.detailed) :
               ~locals.detailed[k].isNull => locals.detailed[k].id = locals.queue[k]
    /\ ListingDone =>
           [k \in 1..Len(Delivered) |-> Delivered[k].id]
             = SelectSeq(locals.queue,
                         LAMBDA id : \E k \in 1..Len(locals.queue) :
                                         locals.queue[k] = id /\ Succeeded(locals.first + k))

\* the get of the second listed message has completed before the first
C15_Witness ==
    /\ pc = "await" /\ op = "listMessages" /\ locals.step = "gets"
    /\ Len(locals.queue) = 3
    /\ 2 \in pending /\ 3 \notin pending
    /\ ~locals.detailed[2].isNull /\ locals.detailed[2].id = locals.queue[2]

\* C16: listMessages issues exactly one list call, for user "me" with the
\* given maxResults or 20, then exactly one get per listed id, and resolves
\* only when every get has settled; with no or an empty messages field it
\* issues no get and delivers [].
C16_OneListOneGetPerId ==
    op = "listMessages" =>
        /\ calls[1].api = "messages.list"
        /\ calls[1].req.userId = "me"
        /\ calls[1].req.maxResults = (IF args.maxResults.has THEN args.maxResults.val ELSE 20)
        /\ \A i \in 2..Len(calls) : calls[i].api = "messages.get"
        /\ Len(calls) > 1 =>
               /\ Succeeded(1)
               /\ Len(calls) = 1 + Len(locals.queue)
               /\ \A k \in 1..Len(locals.queue) :
                      calls[1 + k].req = [userId |-> "me", id |-> locals.queue[k],
                                          format |-> "full"]
        /\ (pc = "done" /\ ~result.threw) =>
               /\ \A i \in 1..Len(calls) : Replied(i)
               /\ Len(calls) = 1 => result.value = <<>>

C16_Witness ==
    /\ Done("listMessages") /\ ~result.threw
    /\ args = NoListOptions
    /\ calls[1].req.maxResults = 20
    /\ Len(calls) = 4
    /\ Failed(3)
    /\ Len(result.value) = 2

\* C17: searchMessages(query, maxResults) issues the request of
\* listMessages({ query, maxResults }), whose q is the query unmodified; the
\* fixed queries of the tools reach the remote call verbatim.
C17_SearchIsListing ==
    /\ op = "searchMessages" =>
           /\ calls[1].req = ListRequest([maxResults |-> args.maxResults,
                                          query |-> args.query, labelIds |-> Undefined])
           /\ calls[1].req.q = args.query
    /\ (op = "gmail_search" /\ calls # <<>>) => calls[1].req.q = args.query
    /\ (op = "gmail_get_priority_emails" /\ calls # <<>>) =>
           calls[1].req.q.val =
               "is:unread -category:promotions -category:social -category:updates -category:forums"
    /\ (op = "gmail_find_newsletters" /\ calls # <<>>) =>
           calls[1].req.q.val =
               "(unsubscribe OR newsletter OR \"email preferences\" OR \"manage subscriptions\") -is:sent"
    /\ (op = "gmail_find_unsubscribe_candidates" /\ calls # <<>>) =>
           calls[1].req.q.val = "unsubscribe -is:sent"

C17_Witness ==
    /\ Done("searchMessages") /\ ~result.threw
    /\ args.query.val = "from:alice@example.com subject:\"x\""
    /\ calls[1].req.q.val = "from:alice@example.com subject:\"x\""
    /\ Len(result.value) = 1

\* C18: markAsRead(id) issues one modify of id that adds no label and removes
\* only UNREAD; markAsUnread(id) one that adds only UNREAD and removes none.
C18_MarkRequests ==
    /\ (op \in {"markAsRead", "gmail_mark_read"} /\ calls # <<>>) =>
           /\ Len(calls) = 1
           /\ calls[1].api = "messages.modify"
           /\ calls[1].req = [userId |-> "me", id |-> args.messageId,
                              requestBody |-> [addLabelIds |-> <<>>,
                                               removeLabelIds |-> <<"UNREAD">>]]
    /\ (op \in {"markAsUnread", "gmail_mark_unread"} /\ calls # <<>>) =>
           /\ Len(calls) = 1
           /\ calls[1].api = "messages.modify"
           /\ calls[1].req = [userId |-> "me", id |-> args.messageId,
                              requestBody |-> [addLabelIds |-> <<"UNREAD">>,
                                               removeLabelIds |-> <<>>]]

C18_Witness ==
    /\ Done("markAsRead") /\ Succeeded(1)
    /\ calls[1].req.requestBody.removeLabelIds = <<"UNREAD">>

\* C19: whenever gmail_complete_auth answers "Failed to complete
\* authentication", or gmail_auth_status fails or answers with the "Not
\* authenticated" instructions, the process-wide client is the instance (or
\* null) it was when the handler was invoked.
C19_ReplacedOnlyOnSuccess ==
    /\ (Done("gmail_complete_auth")
        /\ result.value.text = "Failed to complete authentication: ")
           => gmailClient = locals.entered
    /\ (Done("gmail_auth_status")
        /\ (result.threw \/ result.value.text = "Not authenticated. To set up Gmail access:"))
           => gmailClient = locals.entered

\* "Alice"
NameAlice == <<65, 108, 105, 99, 101>>
\* "Bob"
NameBob == <<66, 111, 98>>

\* the display names of the senders of the mailbox
NameOf(id) == IF id = "m3" THEN NameBob ELSE NameAlice

\* C20: gmail_find_newsletters lists one entry per sender display name (the
\* from value without its "<...>" part, trimmed) of the delivered messages,
\* with the number of delivered messages of that name; the counts add up to
\* the number of messages and fall weakly along the list.
C20_NewslettersBySender ==
    (Done("gmail_find_newsletters") /\ ~result.threw
     /\ result.value.text = " potential newsletter emails from ") =>
        LET msgs == result.value.data.messages
            senders == result.value.data.senders
            Count(name) == Cardinality({i \in 1..Len(msgs) : NameOf(msgs[i].id) = name})
        IN  /\ \A k \in 1..Len(senders) :
                   /\ senders[k].count = Count(senders[k].sender)
                   /\ senders[k].count > 0
            /\ \A i \in 1..Len(msgs) :
                   \E k \in 1..Len(senders) : senders[k].sender = NameOf(msgs[i].id)
            /\ \A k, l \in 1..Len(senders) :
                   k # l => senders[k].sender # senders[l].sender
            /\ Len(msgs) = Cardinality({<<k, n>> \in (1..Len(senders)) \X (1..Len(msgs)) :
                                           n <= senders[k].count})
            /\ \A k \in 1..(Len(senders) - 1) : senders[k].count >= senders[k + 1].count

\* Bob's message is listed first, Alice's two messages are counted first
C20_Witness ==
    /\ Done("gmail_find_newsletters") /\ ~result.threw
    /\ result.value.text = " potential newsletter emails from "
    /\ [k \in 1..Len(result.value.data.messages) |-> result.value.data.messages[k].id]
         = <<"m3", "m1", "m2">>
    /\ result.value.data.senders
         = <<[sender |-> NameAlice, count |-> 2], [sender |-> NameBob, count |-> 1]>>

----------------------------------------------------------------------------
(* The reference traversal *)

\* "<p>Hello <b>World</b></p>"
HtmlHello == <<60, 112, 62, 72, 101, 108, 108, 111, 32, 60, 98, 62, 87, 111, 114, 108, 100, 60, 47, 98, 62, 60, 47, 112, 62>>
\* "a > b < é"
Angle == <<97, 32, 62, 32, 98, 32, 60, 32, 233>>

\* the text the body data of the messages stands for
TextOf(data) ==
    IF data = HelloWorldData THEN HelloWorld
    ELSE IF data = HtmlHelloData THEN HtmlHello
    ELSE IF data = BrData THEN <<LT, 98, 114, GT>>
    ELSE IF data = SpacedData THEN <<SP, 97, SP, LT, 105, GT, 98, LT, 47, 105, GT, LF, LF, SP, 99, SP>>
    ELSE Angle

\* that text without its tags, runs of white space collapsed, trimmed
StrippedOf(data) ==
    IF data \in {HelloWorldData, HtmlHelloData} THEN HelloWorld
    ELSE IF data = BrData THEN <<>>
    ELSE IF data = SpacedData THEN ABC
    ELSE Angle

RECURSIVE Reference(_)
RECURSIVE FirstNonEmpty(_, _)

\* the result of the first child, in given order, whose result is not empty
FirstNonEmpty(ps, i) ==
    IF i > Len(ps) THEN <<>>
    ELSE IF Reference(ps[i]) # <<>> THEN Reference(ps[i])
    ELSE FirstNonEmpty(ps, i + 1)

Reference(n) ==
    IF PlainWithData(n) THEN TextOf(n.data.val)
    ELSE IF HtmlWithData(n) THEN StrippedOf(n.data.val)
    ELSE FirstNonEmpty(Children(n), 1)

\* C21: for every MIME tree extractBody equals the reference: a text/plain
\* node with body data yields its decoded text and a text/html node with body
\* data its stripped text, the children not being visited; any other node
\* yields the result of its first child whose own result is not empty, or
\* the empty string.
C21_EqualsReference ==
    (Extracted /\ Succeeded(1)) => body = Returned(Reference(payload))

\* [[<br>, <p>Hello <b>World</b></p>], " a <i>b</i> c "]: the empty HTML part
\* does not end the search, the nested match wins over the later sibling
C21_Witness ==
    /\ Extracted /\ Succeeded(1)
    /\ payload = Part("multipart/mixed", FALSE, Undefined,
                      Some(<<Part("multipart/alternative", FALSE, Undefined,
                                  Some(<<Part("text/html", TRUE, Some(BrData), Undefined),
                                         Part("text/html", TRUE, Some(HtmlHelloData),
                                              Undefined)>>)),
                             Part("text/html", TRUE, Some(SpacedData), Undefined)>>))
    /\ body = Returned(HelloWorld)

\* a criterion left out or given as the empty string
Absent(v) == ~v.has \/ v.val = ""

CreatingFilter == op = "gmail_create_filter" /\ pc # "idle" /\ locals.entered # 0

\* C22: gmail_create_filter, invoked with a client, answers "At least one
\* filter criteria is required (from, to, subject, or query)." and issues no
\* remote call when each of from, to, subject and query is left out or empty;
\* otherwise it issues exactly one filters.create whose criteria are the
\* given from, to, subject and query and whose action is the given
\* addLabelIds and removeLabelIds.
C22_CriteriaRequired ==
    CreatingFilter =>
        IF Absent(args.from) /\ Absent(args.to) /\ Absent(args.subject) /\ Absent(args.query)
        THEN /\ calls = <<>>
             /\ pc = "done"
             /\ result = Returned([text |-> CriteriaRequired, data |-> Nothing])
        ELSE /\ Len(calls) = 1
             /\ calls[1].api = "filters.create"
             /\ calls[1].req.userId = "me"
             /\ calls[1].req.requestBody.criteria =
                    [from |-> args.from, to |-> args.to,
                     subject |-> args.subject, query |-> args.query]
             /\ calls[1].req.requestBody.action.addLabelIds = args.addLabelIds
             /\ calls[1].req.requestBody.action.removeLabelIds = args.removeLabelIds
             /\ ~calls[1].req.requestBody.action.forward.has

\* from: "", query left out: refused without a remote call
C22_Witness ==
    /\ CreatingFilter /\ pc = "done"
    /\ args.from = Given("") /\ ~args.query.has
    /\ calls = <<>>
    /\ result.value.text = CriteriaRequired

ListedMessages == op = "listMessages" /\ pc = "done"

\* the positions of the listing whose get succeeded
Fetched == {k \in 1..Len(locals.queue) : Succeeded(locals.first + k)}

\* C23: a failing get does not fail listMessages: when the list call
\* succeeded listMessages resolves whichever gets fail, with exactly one
\* message per listed id whose get succeeded, in listing order and never more
\* than were listed; it rejects exactly when the list call itself failed.
C23_PartialFailureIsolated ==
    /\ (op = "listMessages" /\ pc = "await" /\ locals.step = "gets") =>
           \A i \in 2..Len(calls) : Failed(i) => ~result.threw
    /\ ListedMessages =>
           /\ result.threw <=> Failed(1)
           /\ Succeeded(1) =>
                  /\ Len(result.value) = Cardinality(Fetched)
                  /\ Len(result.value) <= Len(locals.queue)
                  /\ \A k \in 1..Len(result.value) :
                         \E q \in Fetched :
                             /\ result.value[k].id = locals.queue[q]
                             /\ Cardinality({f \in Fetched : f < q}) = k - 1

\* of three listed messages the get of the second failed
C23_Witness ==
    /\ ListedMessages /\ Succeeded(1)
    /\ Len(locals.queue) = 3
    /\ Fetched = {1, 3}
    /\ Failed(locals.first + 2)
    /\ Len(result.value) = 2

ListingDrafts == op \in {"listDrafts", "gmail_list_drafts"} /\ calls # <<>>

\* the ids of the listed entries that carry one, in listing order
IdsOf(l) ==
    LET upTo[i \in 0..Len(l)] ==
            IF i = 0 THEN <<>>
            ELSE IF l[i] = "" THEN upTo[i - 1] ELSE Append(upTo[i - 1], l[i])
    IN  upTo[Len(l)]

\* C24: listDrafts fetches the details one after the other in listing order:
\* a get is issued only when every earlier call has completed successfully,
\* at most one call is outstanding, no get is issued for an entry without an
\* id, the drafts are delivered in listing order, and a failing get makes
\* the whole listing fail.
C24_DraftsOneByOne ==
    ListingDrafts =>
        /\ Cardinality(pending) <= 1
        /\ calls[1].api = "drafts.list"
        /\ \A i \in 1..(Len(calls) - 1) : Succeeded(i)
        /\ Len(calls) - 1 <= Len(IdsOf(locals.listed))
        /\ \A i \in 2..Len(calls) :
               /\ calls[i].api = "drafts.get"
               /\ calls[i].req.id # ""
               /\ calls[i].req.id = IdsOf(locals.listed)[i - 1]
        /\ pc = "done" =>
               IF \E i \in 1..Len(calls) : Failed(i)
               THEN IF op = "listDrafts" THEN result.threw
                    ELSE result = Returned([text |-> "Failed to list drafts: ",
                                            data |-> Nothing])
               ELSE /\ ~result.threw
                    /\ Len(calls) = 1 + Len(IdsOf(locals.listed))
                    /\ op = "listDrafts" => result.value = IdsOf(locals.listed)

\* the second get is outstanding after the first succeeded
C24_Witness ==
    /\ op = "listDrafts" /\ pc = "await"
    /\ locals.listed = <<"d2", "d1">>
    /\ Len(calls) = 3 /\ pending = {3}
    /\ Succeeded(2) /\ ~Replied(3)
    /\ calls[2].req.id = "d2" /\ calls[3].req.id = "d1"

\* the text a receiver decodes from the raw value of the i-th remote call
RawOf(i) == ToStringUtf8(BufferFromBase64(calls[i].req.requestBody.message.raw))

C26_ClientStaysSet ==
    [][/\ gmailClient # 0 => gmailClient' # 0
       /\ op' \in GuardedTools =>
              \A i \in 1..Len(calls') : calls'[i].client # 0]_vars

\* gmail_complete_auth has failed at the code exchange in a process that has
\* a client
C26_Witness ==
    /\ Done("gmail_complete_auth") /\ stage = "flow" /\ Failed(1)
    /\ gmailClient # 0
    /\ result.value.text = "Failed to complete authentication: "

\* C27: every remote call of a tool invocation goes through the client
\* instance that was current when the invocation started.
C27_OneClientPerInvocation ==
    op \in GuardedTools =>
        \A i \in 1..Len(calls) : calls[i].client = locals.entered

GotEmail == Done("gmail_get_email") /\ calls # <<>>

\* C28: gmail_get_email answers "Email not found." for every failure of the
\* remote get, whatever its cause, and a failing get never makes it answer
\* "Failed to get email: ...".
C28_FetchFailureIsNotFound ==
    GotEmail =>
        /\ Len(calls) = 1 /\ calls[1].api = "messages.get"
        /\ ~result.threw
        /\ Failed(1) => result.value.text = "Email not found."
        /\ result.value.text # "Failed to get email: "

\* the remote get of "m3" failed
C28_Witness ==
    /\ GotEmail /\ Failed(1)
    /\ args.messageId = "m3"
    /\ result = Returned([text |-> "Email not found.", data |-> Nothing])

\* twenty-two messages of twenty-one senders, the last sender twice
Bulk ==
    [i \in 1..22 |->
        [id |-> "m1", from |-> <<96 + (IF i = 22 THEN 21 ELSE i)>>, subject |-> "s1"]]

BulkCandidates == Candidates(Bulk)

\* the candidates cands are what the claim says of the messages msgs
CandidatesOf(msgs, cands) ==
    LET With(from) == {i \in 1..Len(msgs) : msgs[i].from = from}
        First(from) == CHOOSE i \in With(from) : \A j \in With(from) : i <= j
        froms == {msgs[i].from : i \in 1..Len(msgs)}
    IN  /\ \A k \in 1..Len(cands) :
               /\ With(cands[k].sender) # {}
               /\ cands[k].count = Cardinality(With(cands[k].sender))
               /\ cands[k].latestId = msgs[First(cands[k].sender)].id
               /\ cands[k].subject = msgs[First(cands[k].sender)].subject
        /\ \A k, l \in 1..Len(cands) : k # l => cands[k].sender # cands[l].sender
        /\ Len(cands) = (IF Cardinality(froms) < 20 THEN Cardinality(froms) ELSE 20)
        /\ \A k \in 1..(Len(cands) - 1) : cands[k].count >= cands[k + 1].count
        /\ \A from \in froms :
               (\A k \in 1..Len(cands) : cands[k].sender # from) =>
                   \A k \in 1..Len(cands) : cands[k].count >= Cardinality(With(from))

BulkCandidatesOf == CandidatesOf(Bulk, BulkCandidates)

Unsubscribable ==
    /\ Done("gmail_find_unsubscribe_candidates") /\ ~result.threw
    /\ result.value.text = SuccessText("gmail_find_unsubscribe_candidates")

\* C29: gmail_find_unsubscribe_candidates lists per from value the number of
\* returned messages with that from value, with the subject and the id of
\* the first such message in listing order, which no later message replaces;
\* it lists the senders by falling count and at most 20 of them, the counts
\* adding up to the number of messages when no sender is cut off.
C29_CandidatesBySender ==
    /\ Unsubscribable =>
           LET msgs == result.value.data.messages
               cands == result.value.data.candidates
           IN  /\ CandidatesOf(msgs, cands)
               /\ Len(msgs) = Cardinality({<<k, n>> \in (1..Len(cands)) \X (1..Len(msgs)) :
                                              n <= cands[k].count})
    /\ BulkCandidatesOf
    /\ Len(BulkCandidates) = 20
    /\ BulkCandidates[1] = [sender |-> <<117>>, count |-> 2,
                            latestId |-> "m1", subject |-> "s1"]

\* Alice's first message stays the one shown when her later message, with the
\* greater id, is counted
C29_Witness ==
    /\ Unsubscribable
    /\ [k \in 1..Len(result.value.data.messages) |-> result.value.data.messages[k].id]
         = <<"m1", "m3", "m4">>
    /\ result.value.data.candidates
         = <<[sender |-> FromAlice, count |-> 2, latestId |-> "m1", subject |-> "s1"],
             [sender |-> FromBob, count |-> 1, latestId |-> "m3", subject |-> "s3"]>>

\* getAuthenticatedClient() delivers a client: credentials and token load
Authenticated(f) == f.credentials /\ f.token

\* C30: completeOAuthFlow writes the token file only after a successful code
\* exchange and before it returns the client: when the credentials are
\* missing or the exchange fails, gmail_complete_auth answers "Failed to
\* complete authentication: ..." with the token file and the process-wide
\* client as they were; once completeOAuthFlow has returned, a
\* getAuthenticatedClient over the same files delivers a client.
C30_TokenAfterExchange ==
    [][/\ (op' = "gmail_complete_auth" /\ pc # "done" /\ pc' = "done"
           /\ (calls' = <<>> \/ <<1, FALSE>> \in replies')) =>
              /\ files' = files
              /\ gmailClient' = gmailClient
              /\ result' = Returned([text |-> "Failed to complete authentication: ",
                                     data |-> Nothing])
       /\ (op' = "gmail_complete_auth" /\ files' # files) => <<1, TRUE>> \in replies'
       /\ (op' = "gmail_complete_auth" /\ stage' = "profile") =>
              /\ <<1, TRUE>> \in replies'
              /\ Authenticated(files')]_vars

\* the exchange failed in a process without a token: there is none after it
C30_Witness ==
    /\ Done("gmail_complete_auth") /\ Failed(1)
    /\ calls[1].api = "oauth2.getToken"
    /\ files.credentials /\ ~files.token
    /\ gmailClient = 0

====
